---- MODULE Spec2Model ----
(***************************************************************************)
(* Model of algosrest.client.parallel: RequestInfo, ProcessPool (a thin    *)
(* wrapper around concurrent.futures.ProcessPoolExecutor) and RequestPool  *)
(* (HTTP request execution, batch/single dispatch, chunking, shutdown).    *)
(***************************************************************************)
EXTENDS Integers, Sequences, FiniteSets, TLC

(***************************************************************************)
(* Bounds of the model.                                                    *)
(***************************************************************************)
MaxLen == 3          \* longest array given to chunks
MaxN == 3            \* largest chunk size given to chunks
MaxObjs == 2         \* RequestInfo objects constructed in one behaviour
MaxUnits == 2        \* units of work (calls of request) started in one behaviour
MaxParts == 2        \* longest outer list given to batch_request
MaxWorkers == 2      \* largest integer worker count given at construction

(***************************************************************************)
(* Python values.  A value carries its type tag; str values used as opaque *)
(* names hold a TLA+ string, the method string holds its characters so     *)
(* that str.upper() is computed.                                           *)
(***************************************************************************)
PyNone == [t |-> "NoneType"]
PyStr(s) == [t |-> "str", s |-> s]
PyChars(cs) == [t |-> "str", cs |-> cs]
PyInt(n) == [t |-> "int", n |-> n]
PyFloat(n) == [t |-> "float", n |-> n]
PyList(xs) == [t |-> "list", xs |-> xs]
PyDict(kv) == [t |-> "dict", kv |-> kv]
PySet == [t |-> "set"]

NoErr == [kind |-> "none", msg |-> ""]
Raise(kind, msg) == [kind |-> kind, msg |-> msg]

LowerCase == <<"a","b","c","d","e","f","g","h","i","j","k","l","m",
               "n","o","p","q","r","s","t","u","v","w","x","y","z">>
UpperCase == <<"A","B","C","D","E","F","G","H","I","J","K","L","M",
               "N","O","P","Q","R","S","T","U","V","W","X","Y","Z">>

UpperChar(c) ==
    IF \E i \in 1..26 : LowerCase[i] = c
    THEN UpperCase[CHOOSE i \in 1..26 : LowerCase[i] = c]
    ELSE c

\* str.upper() on the characters of a string
upper(s) == [i \in 1..Len(s) |-> UpperChar(s[i])]

(***************************************************************************)
(* State.                                                                  *)
(***************************************************************************)
VARIABLES
    objs,        \* RequestInfo objects constructed so far (identity = index)
    last,        \* outcome of the caller's last operation: [op, err]
    chunksIn,    \* arguments of the chunks call: [array, n]
    chunksOut,   \* its outcome [err, out], or NotCalled
    rp,          \* the RequestPool: [state, hostname, port]
    pool,        \* its ProcessPool / executor: [state, n_workers]
    pc,          \* where the caller is: "idle", "shutdown" or "request"
    units,       \* every call of request: [via, arg, state, result, exc, seen, overtook]
    workQueue,   \* executor: submitted work items not yet in the call queue
    callQueue,   \* executor: work items handed to the worker processes
    ctx,         \* per execution context (0 = caller, 1..N = worker): request's locals
    conns,       \* every HTTPConnection created: [unit, state, sent, closes]
    iter,        \* the iterator returned by batch_request: [state, fs, out];
                 \* out lists what it yielded, with the unit each value came from
    env          \* what the clock can read, what the server can answer and
                 \* whether it can refuse a connection: [clock, bodies, refuses]

vars == <<objs, last, chunksIn, chunksOut, rp, pool, pc, units, workQueue,
          callQueue, ctx, conns, iter, env>>

poolVars == <<rp, pool, pc, units, workQueue, callQueue, ctx, conns, iter, env>>

NotCalled == [err |-> Raise("none", "not called"), out |-> <<>>]
NoOp == [op |-> "none", err |-> NoErr, args |-> <<>>]
IdleCtx == [unit |-> 0, pc |-> "idle", i |-> 0, results |-> <<>>, conn |-> 0, start |-> 0]
NoIter == [state |-> "none", fs |-> <<>>, out |-> <<>>]

(***************************************************************************)
(* RequestInfo.__init__ (parallel.py 31-40).  The three assignments run in *)
(* order; method.upper() raises AttributeError on a value without upper(). *)
(* No other check is made.                                                 *)
(***************************************************************************)
\* RequestInfo_init as it would be if the method were stored as given
RequestInfo_init_as_given(endpoint, method, data) ==
    IF method.t # "str"
    THEN [err |-> Raise("AttributeError", "object has no attribute 'upper'"),
          obj |-> PyNone]
    ELSE [err |-> NoErr,
          obj |-> [t |-> "RequestInfo",
                   endpoint |-> endpoint,
                   method |-> method,
                   data |-> data]]

RequestInfo_init(endpoint, method, data) ==
    IF method.t # "str"
    THEN [err |-> Raise("AttributeError", "object has no attribute 'upper'"),
          obj |-> PyNone]
    ELSE [err |-> NoErr,
          obj |-> [t |-> "RequestInfo",
                   endpoint |-> endpoint,
                   method |-> PyChars(upper(method.cs)),
                   data |-> data]]

\* a reference to the k-th RequestInfo object constructed
Ref(k) == [t |-> "ref", id |-> k]

\* a == other for the k-th RequestInfo object a: the class (parallel.py 20-47)
\* defines no __eq__, so object.__eq__ compares identities
RequestInfo_eq(k, other) == other.t = "ref" /\ other.id = k

(***************************************************************************)
(* RequestPool.chunks (parallel.py 258-272), consumed with list(...).      *)
(***************************************************************************)
\* the values range(start, stop, step) yields, step # 0
RECURSIVE range(_, _, _)
range(start, stop, step) ==
    IF (step > 0 /\ start < stop) \/ (step < 0 /\ start > stop)
    THEN <<start>> \o range(start + step, stop, step)
    ELSE <<>>

\* Slice as it would be if the slice stopped one element early
Slice_short(xs, i, j) ==
    LET hi == IF j - 1 > Len(xs) THEN Len(xs) ELSE j - 1
    IN  IF i >= hi THEN <<>> ELSE SubSeq(xs, i + 1, hi)

\* the slice xs[i:j] of a list, 0 <= i <= j
Slice(xs, i, j) ==
    LET hi == IF j > Len(xs) THEN Len(xs) ELSE j
    IN  IF i >= hi THEN <<>> ELSE SubSeq(xs, i + 1, hi)

chunks(array, n) ==
    IF array.t \notin {"list", "dict"}
    THEN [err |-> Raise("TypeError", "object has no len()"), out |-> <<>>]
    ELSE IF n.t # "int"
    THEN [err |-> Raise("TypeError", "object cannot be interpreted as an integer"),
          out |-> <<>>]
    ELSE IF n.n = 0
    THEN [err |-> Raise("ValueError", "range() arg 3 must not be zero"), out |-> <<>>]
    ELSE LET L == IF array.t = "list" THEN Len(array.xs) ELSE Len(array.kv)
             r == range(0, L, n.n)
         IN  IF r # <<>> /\ array.t = "dict"
             THEN [err |-> Raise("TypeError", "unhashable type: 'slice'"), out |-> <<>>]
             ELSE [err |-> NoErr,
                   out |-> [k \in 1..Len(r) |-> Slice(array.xs, r[k], r[k] + n.n)]]

(***************************************************************************)
(* Construction.                                                           *)
(***************************************************************************)
NoPool == [state |-> "none", n_workers |-> 0]
NoRP == [state |-> "none", hostname |-> PyNone, port |-> PyNone]

\* ProcessPool.__init__ (parallel.py 55-67): no check of its own; the executor's
\* constructor compares max_workers with 0 (None means one worker per cpu) and
\* sizes its call queue with it.
ProcessPool_init(n_workers, cpus) ==
    IF n_workers.t = "NoneType"
    THEN [err |-> NoErr, pool |-> [state |-> "accepting", n_workers |-> cpus]]
    ELSE IF n_workers.t \notin {"int", "float"}
    THEN [err |-> Raise("TypeError", "'<=' not supported between instances"),
          pool |-> NoPool]
    ELSE IF n_workers.n <= 0
    THEN [err |-> Raise("ValueError", "max_workers must be greater than 0"),
          pool |-> NoPool]
    ELSE IF n_workers.t = "float"
    THEN [err |-> Raise("TypeError", "'float' object cannot be interpreted as an integer"),
          pool |-> NoPool]
    ELSE [err |-> NoErr, pool |-> [state |-> "accepting", n_workers |-> n_workers.n]]

\* RequestPool_init as it would be if port 0 were accepted
RequestPool_init_port0(n_workers, hostname, port, cpus) ==
    LET pp == ProcessPool_init(n_workers, cpus)
        failed(kind, msg) == [err |-> Raise(kind, msg), rp |-> NoRP, pool |-> pp.pool]
    IN  IF pp.err # NoErr
        THEN [err |-> pp.err, rp |-> NoRP, pool |-> NoPool]
        ELSE IF hostname.t # "str"
        THEN failed("TypeError", "Hostname not given as string")
        ELSE IF port.t # "int"
        THEN failed("TypeError", "Port not given as int.")
        ELSE IF hostname.s = ""
        THEN failed("ValueError", "Blank hostname given")
        ELSE IF port.n < 0
        THEN failed("ValueError", "Invalid port number given")
        ELSE [err |-> NoErr,
              rp |-> [state |-> "ok", hostname |-> hostname, port |-> port],
              pool |-> pp.pool]

\* RequestPool.__init__ (parallel.py 122-146): the pool is created first, then
\* hostname and port are checked, in the order of the four if statements.
RequestPool_init(n_workers, hostname, port, cpus) ==
    LET pp == ProcessPool_init(n_workers, cpus)
        failed(kind, msg) == [err |-> Raise(kind, msg), rp |-> NoRP, pool |-> pp.pool]
    IN  IF pp.err # NoErr
        THEN [err |-> pp.err, rp |-> NoRP, pool |-> NoPool]
        ELSE IF hostname.t # "str"
        THEN failed("TypeError", "Hostname not given as string")
        ELSE IF port.t # "int"
        THEN failed("TypeError", "Port not given as int.")
        ELSE IF hostname.s = ""
        THEN failed("ValueError", "Blank hostname given")
        ELSE IF port.n < 1
        THEN failed("ValueError", "Invalid port number given")
        ELSE [err |-> NoErr,
              rp |-> [state |-> "ok", hostname |-> hostname, port |-> port],
              pool |-> pp.pool]

WorkerArgs == {PyInt(k) : k \in 0..MaxWorkers} \cup {PyList(<<PyInt(1)>>), PyNone, PyFloat(2)}
HostArgs == {PyStr("localhost"), PyStr(""), PyInt(1)}
PortArgs == {PyInt(8081), PyInt(1), PyInt(0), PyInt(-1), PyStr("8081")}

\* the caller constructs the RequestPool
Construct ==
    /\ last.op = "none"
    /\ \E n \in WorkerArgs, h \in HostArgs, p \in PortArgs, cpus \in 1..MaxWorkers :
          LET r == RequestPool_init(n, h, p, cpus)
          IN  /\ rp' = r.rp
              /\ pool' = r.pool
              /\ last' = [op |-> "init", err |-> r.err, args |-> <<n, h, p>>]
    /\ UNCHANGED <<objs, chunksIn, chunksOut, pc, units, workQueue, callQueue,
                   ctx, conns, iter, env>>

(***************************************************************************)
(* Inputs of the dispatch operations.                                      *)
(***************************************************************************)
D1 == RequestInfo_init(PyStr("/"), PyChars(<<"G", "E", "T">>), PyNone).obj
D2 == RequestInfo_init(PyStr("/a"), PyChars(<<"p", "o", "s", "t">>),
                       PyDict(<<<<"hello", "world">>>>)).obj

\* arguments given to request: lists of RequestInfo, a value that is not a
\* list, and a list with an element that is not a RequestInfo
Args == {PyList(<<>>), PyList(<<D1, D2>>),
         PyDict(<<>>), PyList(<<D1, PyInt(1)>>)}

SeqsUpTo(S, n) == UNION {[1..k -> S] : k \in 0..n}

\* outer lists given to batch_request, values given to single_request and
\* lists given to request by the caller of the pool
BatchArgs == SeqsUpTo({PyList(<<>>), PyList(<<D1, D2>>), PyList(<<D1, PyInt(1)>>)}, MaxParts)
SingleArgs == {D1, PyInt(1)}
DirectArgs == {PyList(<<D1, D2>>), PyDict(<<>>)}

Clock == 0..1                 \* readings of time.time()
Bodies == {"b1", "b2"}        \* response bodies a server sends
EXTRA_QUEUED_CALLS == 1       \* concurrent.futures.process: call queue slack

\* Workers as it would be if the executor started one process more than asked
Workers_extra == 1..(IF pool.n_workers < MaxWorkers THEN pool.n_workers + 1
                                                     ELSE pool.n_workers)

Workers == 1..pool.n_workers
SchedulingError == Raise("RuntimeError", "cannot schedule new futures after shutdown")

NewUnit(via, arg, state) ==
    [via |-> via, arg |-> arg, state |-> state, result |-> <<>>, exc |-> NoErr,
     seen |-> FALSE, overtook |-> FALSE]

(***************************************************************************)
(* ProcessPool.batch / ProcessPool.single / ProcessPool.shutdown           *)
(* (parallel.py 69-111) on the executor.                                   *)
(***************************************************************************)
\* executor.map(func, iterables): one submit per element, made by the call
\* itself; the first submit after shutdown raises.
batch(iterables) ==
    IF pool.state = "shutdown" /\ Len(iterables) > 0
    THEN /\ last' = [op |-> "batch", err |-> SchedulingError, args |-> <<>>]
         /\ UNCHANGED <<units, workQueue, iter>>
    ELSE LET ids == [k \in 1..Len(iterables) |-> Len(units) + k]
         IN  /\ units' = units \o [k \in 1..Len(iterables) |->
                                      NewUnit("batch", iterables[k], "PENDING")]
             /\ workQueue' = workQueue \o ids
             /\ iter' = [state |-> "active", fs |-> ids, out |-> <<>>]
             /\ last' = [op |-> "batch", err |-> NoErr, args |-> <<>>]

\* what the isinstance checks of request (parallel.py 158-164) accept
ValidArg(arg) ==
    /\ arg.t = "list"
    /\ \A k \in 1..Len(arg.xs) : arg.xs[k].t = "RequestInfo"

\* single as it would be if the argument were checked when it is submitted
single_checked(arg) ==
    IF pool.state = "shutdown"
    THEN /\ last' = [op |-> "single", err |-> SchedulingError, args |-> <<>>]
         /\ UNCHANGED <<units, workQueue>>
    ELSE IF ~ValidArg(arg)
    THEN /\ last' = [op |-> "single",
                     err |-> Raise("TypeError", "Unsupported Type for Input Elements"),
                     args |-> <<>>]
         /\ UNCHANGED <<units, workQueue>>
    ELSE /\ units' = Append(units, NewUnit("single", arg, "PENDING"))
         /\ workQueue' = Append(workQueue, Len(units) + 1)
         /\ last' = [op |-> "single", err |-> NoErr, args |-> <<>>]

\* single as it would be if the executor accepted work after shutdown
single_after_shutdown(arg) ==
    /\ units' = Append(units, NewUnit("single", arg, "PENDING"))
    /\ workQueue' = Append(workQueue, Len(units) + 1)
    /\ last' = [op |-> "single", err |-> NoErr, args |-> <<>>]

\* executor.submit(func, arg)
single(arg) ==
    IF pool.state = "shutdown"
    THEN /\ last' = [op |-> "single", err |-> SchedulingError, args |-> <<>>]
         /\ UNCHANGED <<units, workQueue>>
    ELSE /\ units' = Append(units, NewUnit("single", arg, "PENDING"))
         /\ workQueue' = Append(workQueue, Len(units) + 1)
         /\ last' = [op |-> "single", err |-> NoErr, args |-> <<>>]

\* batch_request as it would be if the pool grew to the number of partitions
batch_request_resizing(req_infos) ==
    /\ pc = "idle" /\ rp.state = "ok" /\ iter.state = "none"
    /\ Len(units) + Len(req_infos) <= MaxUnits
    /\ batch(req_infos)
    /\ pool' = [pool EXCEPT !.n_workers = IF Len(req_infos) > @ /\ Len(req_infos) <= MaxWorkers
                                          THEN Len(req_infos) ELSE @]
    /\ UNCHANGED <<objs, chunksIn, chunksOut, rp, pc, callQueue, ctx, conns, env>>

\* RequestPool.batch_request (parallel.py 236-245)
batch_request(req_infos) ==
    /\ pc = "idle" /\ rp.state = "ok" /\ iter.state = "none"
    /\ Len(units) + Len(req_infos) <= MaxUnits
    /\ batch(req_infos)
    /\ UNCHANGED <<objs, chunksIn, chunksOut, rp, pool, pc, callQueue, ctx, conns, env>>

\* single_request as it would be if it waited for a free worker
single_request_waits(req_info) ==
    /\ pc = "idle" /\ rp.state = "ok"
    /\ Len(units) < MaxUnits
    /\ callQueue = <<>> /\ \E w \in Workers : ctx[w].pc = "idle"
    /\ single(PyList(<<req_info>>))
    /\ UNCHANGED <<objs, chunksIn, chunksOut, rp, pool, pc, callQueue, ctx, conns, iter, env>>

\* single_request as it would be if the value were submitted as it is given
single_request_unwrapped(req_info) ==
    /\ pc = "idle" /\ rp.state = "ok"
    /\ Len(units) < MaxUnits
    /\ single(req_info)
    /\ UNCHANGED <<objs, chunksIn, chunksOut, rp, pool, pc, callQueue, ctx, conns, iter, env>>

\* RequestPool.single_request (parallel.py 247-256): the request is wrapped
\* in a one-element list
single_request(req_info) ==
    /\ pc = "idle" /\ rp.state = "ok"
    /\ Len(units) < MaxUnits
    /\ single(PyList(<<req_info>>))
    /\ UNCHANGED <<objs, chunksIn, chunksOut, rp, pool, pc, callQueue, ctx, conns, iter, env>>

\* single_request called by a second thread of the caller, which runs while
\* the first thread is anywhere, inside shutdown included.  submit and
\* shutdown take the executor's lock, so each is one step.
single_request_thread(req_info) ==
    /\ rp.state = "ok" /\ iter.state # "mapping"
    /\ pool.state = "shutdown" \/ Len(units) < MaxUnits
    /\ single(PyList(<<req_info>>))
    /\ UNCHANGED <<objs, chunksIn, chunksOut, rp, pool, pc, callQueue, ctx, conns, iter, env>>

\* executor.map makes its submits one after the other, and the other thread's
\* shutdown may come between two of them: batch_request_thread starts the
\* call, map_submit_thread makes the next submit.  A submit after shutdown
\* raises out of the call, which then returns no iterator; the units already
\* submitted stay with the executor.
batch_request_thread(req_infos) ==
    /\ rp.state = "ok" /\ iter.state = "none"
    /\ pool.state = "shutdown" \/ Len(units) + Len(req_infos) <= MaxUnits
    /\ iter' = [state |-> IF req_infos = <<>> THEN "active" ELSE "mapping",
                fs |-> <<>>, out |-> <<>>, todo |-> req_infos]
    /\ last' = IF req_infos = <<>>
               THEN [op |-> "batch", err |-> NoErr, args |-> <<>>]
               ELSE last
    /\ UNCHANGED <<objs, chunksIn, chunksOut, rp, pool, pc, units, workQueue,
                   callQueue, ctx, conns, env>>

map_submit_thread ==
    /\ iter.state = "mapping"
    /\ IF pool.state = "shutdown"
       THEN /\ last' = [op |-> "batch", err |-> SchedulingError, args |-> <<>>]
            /\ iter' = NoIter
            /\ UNCHANGED <<units, workQueue>>
       ELSE /\ units' = Append(units, NewUnit("batch", Head(iter.todo), "PENDING"))
            /\ workQueue' = Append(workQueue, Len(units) + 1)
            /\ iter' = [iter EXCEPT
                  !.state = IF Len(iter.todo) = 1 THEN "active" ELSE "mapping",
                  !.fs = Append(@, Len(units) + 1),
                  !.todo = Tail(@)]
            /\ last' = IF Len(iter.todo) = 1
                       THEN [op |-> "batch", err |-> NoErr, args |-> <<>>]
                       ELSE last
    /\ UNCHANGED <<objs, chunksIn, chunksOut, rp, pool, pc, callQueue, ctx, conns, env>>

\* RequestPool.shutdown / ProcessPool.shutdown (parallel.py 107-111, 274-276):
\* executor.shutdown(wait=True) flags the executor, then waits.
shutdown ==
    /\ pc = "idle" /\ rp.state = "ok"
    /\ pool' = [pool EXCEPT !.state = "shutdown"]
    /\ pc' = "shutdown"
    /\ last' = [op |-> "shutdown", err |-> NoErr, args |-> <<>>]
    /\ UNCHANGED <<objs, chunksIn, chunksOut, rp, units, workQueue, callQueue,
                   ctx, conns, iter, env>>

\* shutdown_return as it would be with wait=False
shutdown_nowait ==
    /\ pc = "shutdown"
    /\ pc' = "idle"
    /\ UNCHANGED <<objs, last, chunksIn, chunksOut, rp, pool, units, workQueue,
                   callQueue, ctx, conns, iter, env>>

\* the wait ends when the executor has no work item left
shutdown_return ==
    /\ pc = "shutdown"
    /\ workQueue = <<>> /\ callQueue = <<>>
    /\ \A w \in Workers : ctx[w].pc = "idle"
    /\ pc' = "idle"
    /\ UNCHANGED <<objs, last, chunksIn, chunksOut, rp, pool, units, workQueue,
                   callQueue, ctx, conns, iter, env>>

\* Feed as it would be if a shut down executor dropped the work items still
\* in its work queue
Feed_drop_after_shutdown ==
    /\ workQueue # <<>>
    /\ Len(callQueue) < pool.n_workers + EXTRA_QUEUED_CALLS
    /\ LET u == Head(workQueue)
       IN  IF units[u].state = "CANCELLED" \/ pool.state = "shutdown"
           THEN UNCHANGED <<units, callQueue>>
           ELSE /\ units' = [units EXCEPT ![u].state = "RUNNING"]
                /\ callQueue' = Append(callQueue, u)
    /\ workQueue' = Tail(workQueue)
    /\ UNCHANGED <<objs, last, chunksIn, chunksOut, rp, pool, pc, ctx, conns, iter, env>>

\* Feed as it would be if a shut down executor stopped handing work items to
\* the workers
Feed_stops_at_shutdown ==
    /\ pool.state # "shutdown"
    /\ workQueue # <<>>
    /\ Len(callQueue) < pool.n_workers + EXTRA_QUEUED_CALLS
    /\ LET u == Head(workQueue)
       IN  IF units[u].state = "CANCELLED"
           THEN UNCHANGED <<units, callQueue>>
           ELSE /\ units' = [units EXCEPT ![u].state = "RUNNING"]
                /\ callQueue' = Append(callQueue, u)
    /\ workQueue' = Tail(workQueue)
    /\ UNCHANGED <<objs, last, chunksIn, chunksOut, rp, pool, pc, ctx, conns, iter, env>>

\* executor: the next work item goes to the call queue and its future becomes
\* RUNNING; a cancelled item is dropped
Feed ==
    /\ workQueue # <<>>
    /\ Len(callQueue) < pool.n_workers + EXTRA_QUEUED_CALLS
    /\ LET u == Head(workQueue)
       IN  IF units[u].state = "CANCELLED"
           THEN UNCHANGED <<units, callQueue>>
           ELSE /\ units' = [units EXCEPT ![u].state = "RUNNING"]
                /\ callQueue' = Append(callQueue, u)
    /\ workQueue' = Tail(workQueue)
    /\ UNCHANGED <<objs, last, chunksIn, chunksOut, rp, pool, pc, ctx, conns, iter, env>>

(***************************************************************************)
(* RequestPool.request (parallel.py 148-234), run in context c: by the     *)
(* caller itself (c = 0) or by worker process c.                           *)
(***************************************************************************)
Contexts == 0..pool.n_workers

\* the characters of the strings that occur as keys and values of a payload
Chars(s) ==
    CASE s = "hello" -> <<"h", "e", "l", "l", "o">>
      [] s = "world" -> <<"w", "o", "r", "l", "d">>
      [] s = "string" -> <<"s", "t", "r", "i", "n", "g">>
      [] OTHER -> <<s>>

\* json.dumps(data).encode("utf-8") of a dict of str to str: one element for
\* each byte (the output of json.dumps is ASCII)
RECURSIVE json_items(_)
json_items(kv) ==
    IF kv = <<>> THEN <<>>
    ELSE <<"\"">> \o Chars(kv[1][1]) \o <<"\"", ":", " ", "\"">>
         \o Chars(kv[1][2]) \o <<"\"">>
         \o (IF Len(kv) > 1 THEN <<",", " ">> ELSE <<>>)
         \o json_items(Tail(kv))

json_dumps(data) == <<"{">> \o json_items(data.kv) \o <<"}">>

headers == {"Connection", "Host", "User-Agent", "Accept"}
post_headers == headers \cup {"Content-Length", "Content-type"}

\* http_request as it would be if Content-Length were the length of the
\* payload, not of its encoding
http_request_len_data(req_info) ==
    IF req_info.data.t = "NoneType"
    THEN [method |-> req_info.method, url |-> req_info.endpoint,
          body |-> <<>>, headers |-> headers, content_length |-> -1]
    ELSE LET encoded_args == json_dumps(req_info.data)
         IN  [method |-> req_info.method, url |-> req_info.endpoint,
              body |-> encoded_args, headers |-> post_headers,
              content_length |-> Len(req_info.data.kv)]

\* the arguments of conn.request for one RequestInfo (lines 189-218)
http_request(req_info) ==
    IF req_info.data.t = "NoneType"
    THEN [method |-> req_info.method, url |-> req_info.endpoint,
          body |-> <<>>, headers |-> headers, content_length |-> -1]
    ELSE LET encoded_args == json_dumps(req_info.data)
         IN  [method |-> req_info.method, url |-> req_info.endpoint,
              body |-> encoded_args, headers |-> post_headers,
              content_length |-> Len(encoded_args)]

\* the units once unit u has returned or raised; overtook records that it
\* completed while a unit submitted before it had not
Finish(us, u, result, exc) ==
    [us EXCEPT ![u].state = "FINISHED",
               ![u].result = result,
               ![u].exc = exc,
               ![u].overtook = \E v \in 1..(u - 1) : us[v].state \in {"PENDING", "RUNNING"}]

\* request returns or raises in context c
Return(c, result, exc) ==
    /\ units' = Finish(units, ctx[c].unit, result, exc)
    /\ ctx' = [ctx EXCEPT ![c] = IdleCtx]
    /\ IF c = 0
       THEN /\ pc' = "idle"
            /\ last' = [op |-> "request", err |-> exc, args |-> <<>>]
       ELSE UNCHANGED <<pc, last>>

\* request_begin as it would be if the connection were created before the
\* checks
request_begin_connect_first(c, u, us) ==
    /\ conns' = Append(conns, [unit |-> u, state |-> "created",
                               sent |-> <<>>, recv |-> <<>>, closes |-> 0])
    /\ LET req_infos == us[u].arg
           raise(exc) ==
               /\ units' = Finish(us, u, <<>>, exc)
               /\ ctx' = [ctx EXCEPT ![c] = IdleCtx]
               /\ IF c = 0
                  THEN /\ pc' = "idle"
                       /\ last' = [op |-> "request", err |-> exc, args |-> <<>>]
                  ELSE UNCHANGED <<pc, last>>
       IN  IF req_infos.t # "list"
           THEN raise(Raise("TypeError", "Unsupported Type for Input List"))
           ELSE IF \E k \in 1..Len(req_infos.xs) : req_infos.xs[k].t # "RequestInfo"
           THEN raise(Raise("TypeError", "Unsupported Type for Input Elements"))
           ELSE /\ units' = us
                /\ ctx' = [ctx EXCEPT ![c] = [IdleCtx EXCEPT !.unit = u, !.pc = "loop",
                                                             !.conn = Len(conns) + 1]]
                /\ pc' = IF c = 0 THEN "request" ELSE pc
                /\ UNCHANGED last

\* request_begin as it would be if an empty list were answered at once,
\* without a connection
request_begin_skip_empty(c, u, us) ==
    LET req_infos == us[u].arg
        return(result, exc) ==
            /\ units' = Finish(us, u, result, exc)
            /\ ctx' = [ctx EXCEPT ![c] = IdleCtx]
            /\ IF c = 0
               THEN /\ pc' = "idle"
                    /\ last' = [op |-> "request", err |-> exc, args |-> <<>>]
               ELSE UNCHANGED <<pc, last>>
    IN  IF req_infos.t # "list"
        THEN /\ return(<<>>, Raise("TypeError", "Unsupported Type for Input List"))
             /\ UNCHANGED conns
        ELSE IF \E k \in 1..Len(req_infos.xs) : req_infos.xs[k].t # "RequestInfo"
        THEN /\ return(<<>>, Raise("TypeError", "Unsupported Type for Input Elements"))
             /\ UNCHANGED conns
        ELSE IF req_infos.xs = <<>>
        THEN /\ return(<<>>, NoErr)
             /\ UNCHANGED conns
        ELSE /\ conns' = Append(conns, [unit |-> u, state |-> "created",
                                        sent |-> <<>>, recv |-> <<>>, closes |-> 0])
             /\ units' = us
             /\ ctx' = [ctx EXCEPT ![c] = [IdleCtx EXCEPT !.unit = u, !.pc = "loop",
                                                          !.conn = Len(conns) + 1]]
             /\ pc' = IF c = 0 THEN "request" ELSE pc
             /\ UNCHANGED last

\* lines 158-182, run when context c starts unit u of the units us: the two
\* isinstance checks, then the connection object
request_begin(c, u, us) ==
    LET req_infos == us[u].arg
        raise(exc) ==
            /\ units' = Finish(us, u, <<>>, exc)
            /\ ctx' = [ctx EXCEPT ![c] = IdleCtx]
            /\ IF c = 0
               THEN /\ pc' = "idle"
                    /\ last' = [op |-> "request", err |-> exc, args |-> <<>>]
               ELSE UNCHANGED <<pc, last>>
    IN  IF req_infos.t # "list"
        THEN /\ raise(Raise("TypeError", "Unsupported Type for Input List"))
             /\ UNCHANGED conns
        ELSE IF \E k \in 1..Len(req_infos.xs) : req_infos.xs[k].t # "RequestInfo"
        THEN /\ raise(Raise("TypeError", "Unsupported Type for Input Elements"))
             /\ UNCHANGED conns
        ELSE /\ conns' = Append(conns, [unit |-> u, state |-> "created",
                                        sent |-> <<>>, recv |-> <<>>, closes |-> 0])
             /\ units' = us
             /\ ctx' = [ctx EXCEPT ![c] = [IdleCtx EXCEPT !.unit = u, !.pc = "loop",
                                                          !.conn = Len(conns) + 1]]
             /\ pc' = IF c = 0 THEN "request" ELSE pc
             /\ UNCHANGED last

\* request as it would be if it were refused once the pool is shut down
request_refused_after_shutdown(req_infos) ==
    /\ pc = "idle" /\ rp.state = "ok"
    /\ Len(units) < MaxUnits
    /\ IF pool.state = "shutdown"
       THEN /\ last' = [op |-> "request", err |-> SchedulingError, args |-> <<>>]
            /\ UNCHANGED <<units, ctx, conns, pc>>
       ELSE request_begin(0, Len(units) + 1,
                          Append(units, NewUnit("direct", req_infos, "RUNNING")))
    /\ UNCHANGED <<objs, chunksIn, chunksOut, rp, pool, workQueue, callQueue, iter, env>>

\* the caller calls request directly
request(req_infos) ==
    /\ pc = "idle" /\ rp.state = "ok"
    /\ Len(units) < MaxUnits
    /\ request_begin(0, Len(units) + 1, Append(units, NewUnit("direct", req_infos, "RUNNING")))
    /\ UNCHANGED <<objs, chunksIn, chunksOut, rp, pool, workQueue, callQueue, iter, env>>

\* WorkerTake as it would be if a worker took the newest call
WorkerTake_newest(w) ==
    /\ ctx[w].pc = "idle"
    /\ \A v \in Workers : v < w => ctx[v].pc # "idle"
    /\ callQueue # <<>>
    /\ callQueue' = SubSeq(callQueue, 1, Len(callQueue) - 1)
    /\ request_begin(w, callQueue[Len(callQueue)], units)
    /\ UNCHANGED <<objs, chunksIn, chunksOut, rp, pool, workQueue, iter, env>>

\* WorkerTake as it would be if the call stayed in the call queue
WorkerTake_peek(w) ==
    /\ ctx[w].pc = "idle"
    /\ \A v \in Workers : v < w => ctx[v].pc # "idle"
    /\ callQueue # <<>>
    /\ UNCHANGED callQueue
    /\ request_begin(w, Head(callQueue), units)
    /\ UNCHANGED <<objs, chunksIn, chunksOut, rp, pool, workQueue, iter, env>>

\* an idle worker process takes the oldest call and starts request on it; the
\* processes are interchangeable, the idle one with the least number takes
WorkerTake(w) ==
    /\ ctx[w].pc = "idle"
    /\ \A v \in Workers : v < w => ctx[v].pc # "idle"
    /\ callQueue # <<>>
    /\ callQueue' = Tail(callQueue)
    /\ request_begin(w, Head(callQueue), units)
    /\ UNCHANGED <<objs, chunksIn, chunksOut, rp, pool, workQueue, iter, env>>

\* request_send as it would be if the next request were sent without waiting
\* for the response to the one before
request_send_pipelined(c) ==
    /\ ctx[c].pc \in {"loop", "wait"}
    /\ LET req_infos == units[ctx[c].unit].arg.xs
           k == ctx[c].conn
       IN  /\ Len(conns[k].sent) < Len(req_infos)
           /\ \E start \in env.clock :
                 /\ conns' = [conns EXCEPT
                       ![k].state = "open",
                       ![k].sent = Append(@, http_request(req_infos[Len(@) + 1]))]
                 /\ ctx' = [ctx EXCEPT ![c].pc = "wait", ![c].start = start]
                 /\ UNCHANGED <<units, pc, last>>
    /\ UNCHANGED <<objs, chunksIn, chunksOut, rp, pool, workQueue, callQueue, iter, env>>

\* lines 184-218: read the clock, send the request (the first one connects);
\* a transport failure propagates out of request
request_send(c) ==
    /\ ctx[c].pc = "loop"
    /\ LET req_infos == units[ctx[c].unit].arg.xs
           k == ctx[c].conn
       IN  /\ ctx[c].i < Len(req_infos)
           /\ \/ \E start \in env.clock :
                   /\ conns' = [conns EXCEPT
                         ![k].state = "open",
                         ![k].sent = Append(@, http_request(req_infos[ctx[c].i + 1]))]
                   /\ ctx' = [ctx EXCEPT ![c].pc = "wait", ![c].start = start]
                   /\ UNCHANGED <<units, pc, last>>
              \/ /\ env.refuses
                 /\ Return(c, <<>>, Raise("ConnectionRefusedError", "transport"))
                 /\ UNCHANGED conns
    /\ UNCHANGED <<objs, chunksIn, chunksOut, rp, pool, workQueue, callQueue, iter, env>>

\* request_recv as it would be if the tuple were put in front of the results
request_recv_prepend(c) ==
    /\ ctx[c].pc = "wait"
    /\ LET req_infos == units[ctx[c].unit].arg.xs
           k == ctx[c].conn
           req_info == req_infos[ctx[c].i + 1]
       IN  \/ \E response_data \in env.bodies, end \in env.clock :
                /\ conns' = [conns EXCEPT ![k].recv = Append(@, response_data)]
                /\ ctx' = [ctx EXCEPT
                      ![c].pc = "loop",
                      ![c].i = @ + 1,
                      ![c].results = <<<<response_data, end - ctx[c].start,
                                         req_info.endpoint>>>> \o @]
                /\ UNCHANGED <<units, pc, last>>
           \/ /\ Return(c, <<>>, Raise("BadStatusLine", "transport"))
              /\ UNCHANGED conns
    /\ UNCHANGED <<objs, chunksIn, chunksOut, rp, pool, workQueue, callQueue, iter, env>>

\* request_recv as it would be if a request whose response is malformed were
\* issued again
request_recv_retry(c) ==
    /\ ctx[c].pc = "wait"
    /\ LET req_infos == units[ctx[c].unit].arg.xs
           k == ctx[c].conn
           req_info == req_infos[ctx[c].i + 1]
       IN  \/ \E response_data \in env.bodies, end \in env.clock :
                /\ conns' = [conns EXCEPT ![k].recv = Append(@, response_data)]
                /\ ctx' = [ctx EXCEPT
                      ![c].pc = "loop",
                      ![c].i = @ + 1,
                      ![c].results = Append(@, <<response_data, end - ctx[c].start,
                                                 req_info.endpoint>>)]
                /\ UNCHANGED <<units, pc, last>>
           \/ /\ ctx' = [ctx EXCEPT ![c].pc = "loop"]
              /\ UNCHANGED <<units, pc, last, conns>>
    /\ UNCHANGED <<objs, chunksIn, chunksOut, rp, pool, workQueue, callQueue, iter, env>>

\* request_recv as it would be if a malformed response ended the loop and
\* the tuples made so far were returned
request_recv_partial(c) ==
    /\ ctx[c].pc = "wait"
    /\ conns[ctx[c].conn].state = "open"
    /\ LET req_infos == units[ctx[c].unit].arg.xs
           k == ctx[c].conn
           req_info == req_infos[ctx[c].i + 1]
       IN  \/ \E response_data \in env.bodies, end \in env.clock :
                /\ conns' = [conns EXCEPT ![k].recv = Append(@, response_data)]
                /\ ctx' = [ctx EXCEPT
                      ![c].pc = "loop",
                      ![c].i = @ + 1,
                      ![c].results = Append(@, <<response_data, end - ctx[c].start,
                                                 req_info.endpoint>>)]
                /\ UNCHANGED <<units, pc, last>>
           \/ /\ Return(c, ctx[c].results, NoErr)
              /\ UNCHANGED conns
    /\ UNCHANGED <<objs, chunksIn, chunksOut, rp, pool, workQueue, callQueue, iter, env>>

\* request_recv as it would be if the connection had a timeout
request_recv_timeout(c) ==
    /\ ctx[c].pc = "wait"
    /\ LET req_infos == units[ctx[c].unit].arg.xs
           k == ctx[c].conn
           req_info == req_infos[ctx[c].i + 1]
       IN  IF conns[k].state = "silent"
           THEN /\ Return(c, <<>>, Raise("TimeoutError", "transport"))
                /\ UNCHANGED conns
           ELSE \/ \E response_data \in env.bodies, end \in env.clock :
                     /\ conns' = [conns EXCEPT ![k].recv = Append(@, response_data)]
                     /\ ctx' = [ctx EXCEPT
                           ![c].pc = "loop",
                           ![c].i = @ + 1,
                           ![c].results = Append(@, <<response_data, end - ctx[c].start,
                                                      req_info.endpoint>>)]
                     /\ UNCHANGED <<units, pc, last>>
                \/ /\ Return(c, <<>>, Raise("BadStatusLine", "transport"))
                   /\ UNCHANGED conns
    /\ UNCHANGED <<objs, chunksIn, chunksOut, rp, pool, workQueue, callQueue, iter, env>>

\* lines 220-229: read the response, read the clock, append the tuple; a
\* malformed response propagates out of request
request_recv(c) ==
    /\ ctx[c].pc = "wait"
    /\ conns[ctx[c].conn].state = "open"
    /\ LET req_infos == units[ctx[c].unit].arg.xs
           k == ctx[c].conn
           req_info == req_infos[ctx[c].i + 1]
       IN  \/ \E response_data \in env.bodies, end \in env.clock :
                /\ conns' = [conns EXCEPT ![k].recv = Append(@, response_data)]
                /\ ctx' = [ctx EXCEPT
                      ![c].pc = "loop",
                      ![c].i = @ + 1,
                      ![c].results = Append(@, <<response_data, end - ctx[c].start,
                                                 req_info.endpoint>>)]
                /\ UNCHANGED <<units, pc, last>>
           \/ /\ Return(c, <<>>, Raise("BadStatusLine", "transport"))
              /\ UNCHANGED conns
    /\ UNCHANGED <<objs, chunksIn, chunksOut, rp, pool, workQueue, callQueue, iter, env>>

\* the server of connection k, which holds a request not answered yet, goes
\* silent: it keeps the connection and never sends the response.  The
\* connection is made without a timeout (line 170), so getresponse (line 220)
\* has nothing to return and nothing to raise.
server_silent(k) ==
    /\ conns[k].state = "open"
    /\ Len(conns[k].sent) > Len(conns[k].recv)
    /\ \E c \in Contexts : ctx[c].pc = "wait" /\ ctx[c].conn = k
    /\ conns' = [conns EXCEPT ![k].state = "silent"]
    /\ UNCHANGED <<objs, last, chunksIn, chunksOut, rp, pool, pc, units, workQueue,
                   callQueue, ctx, iter, env>>

\* request_end as it would be without conn.close()
request_end_no_close(c) ==
    /\ ctx[c].pc = "loop"
    /\ ctx[c].i = Len(units[ctx[c].unit].arg.xs)
    /\ UNCHANGED conns
    /\ Return(c, ctx[c].results, NoErr)
    /\ UNCHANGED <<objs, chunksIn, chunksOut, rp, pool, workQueue, callQueue, iter, env>>

\* lines 231-234: after the loop, close the connection and return
request_end(c) ==
    /\ ctx[c].pc = "loop"
    /\ ctx[c].i = Len(units[ctx[c].unit].arg.xs)
    /\ conns' = [conns EXCEPT ![ctx[c].conn].state = "closed",
                              ![ctx[c].conn].closes = @ + 1]
    /\ Return(c, ctx[c].results, NoErr)
    /\ UNCHANGED <<objs, chunksIn, chunksOut, rp, pool, workQueue, callQueue, iter, env>>

(***************************************************************************)
(* Consuming results: the iterator of executor.map and Future.result().    *)
(***************************************************************************)
\* cancel as it would be if a future handed to the workers could be cancelled
cancel_running(u) ==
    IF u.state \in {"PENDING", "RUNNING"} THEN [u EXCEPT !.state = "CANCELLED"] ELSE u

\* Future.cancel() succeeds only on a future that is still pending
cancel(u) == IF u.state = "PENDING" THEN [u EXCEPT !.state = "CANCELLED"] ELSE u

\* iter_next as it would be if results were yielded as they complete
iter_next_completion_order ==
    /\ pc = "idle" /\ iter.state = "active"
    /\ \E j \in 1..Len(iter.fs) :
          LET u == iter.fs[j]
          IN  /\ units[u].state = "FINISHED"
              /\ last' = [op |-> "next", err |-> units[u].exc, args |-> <<>>]
              /\ iter' = [iter EXCEPT
                    !.fs = SubSeq(@, 1, j - 1) \o SubSeq(@, j + 1, Len(@)),
                    !.out = Append(@, [unit |-> u, value |-> units[u].result])]
              /\ units' = [units EXCEPT ![u].seen = TRUE]
    /\ UNCHANGED <<objs, chunksIn, chunksOut, rp, pool, pc, workQueue, callQueue,
                   ctx, conns, env>>

\* iter_next as it would be if a failure were raised at its position and the
\* sequence went on with the next position
iter_next_continue ==
    /\ pc = "idle" /\ iter.state = "active"
    /\ IF iter.fs = <<>>
       THEN /\ iter' = [iter EXCEPT !.state = "ended"]
            /\ last' = [op |-> "next", err |-> Raise("StopIteration", ""), args |-> <<>>]
            /\ UNCHANGED units
       ELSE LET u == Head(iter.fs)
            IN  /\ units[u].state = "FINISHED"
                /\ last' = [op |-> "next", err |-> units[u].exc, args |-> <<>>]
                /\ units' = [units EXCEPT ![u].seen = TRUE]
                /\ iter' = IF units[u].exc = NoErr
                           THEN [iter EXCEPT
                                   !.fs = Tail(@),
                                   !.out = Append(@, [unit |-> u, value |-> units[u].result])]
                           ELSE [iter EXCEPT !.fs = Tail(@)]
    /\ UNCHANGED <<objs, chunksIn, chunksOut, rp, pool, pc, workQueue, callQueue,
                   ctx, conns, env>>

\* iter_next as it would be if the sequence were a list made when every
\* partition is done
iter_next_waits_all ==
    /\ pc = "idle" /\ iter.state = "active"
    /\ \A j \in 1..Len(iter.fs) : units[iter.fs[j]].state \in {"FINISHED", "CANCELLED"}
    /\ IF iter.fs = <<>>
       THEN /\ iter' = [iter EXCEPT !.state = "ended"]
            /\ last' = [op |-> "next", err |-> Raise("StopIteration", ""), args |-> <<>>]
            /\ UNCHANGED units
       ELSE LET u == Head(iter.fs)
            IN  /\ last' = [op |-> "next", err |-> units[u].exc, args |-> <<>>]
                /\ IF units[u].exc = NoErr
                   THEN /\ iter' = [iter EXCEPT
                              !.fs = Tail(@),
                              !.out = Append(@, [unit |-> u, value |-> units[u].result])]
                        /\ units' = [units EXCEPT ![u].seen = TRUE]
                   ELSE /\ iter' = [iter EXCEPT !.state = "ended", !.fs = <<>>]
                        /\ units' = [units EXCEPT ![u].seen = TRUE]
    /\ UNCHANGED <<objs, chunksIn, chunksOut, rp, pool, pc, workQueue, callQueue,
                   ctx, conns, env>>

\* next() on the iterator returned by batch_request.  It waits for the oldest
\* future; a result is yielded, an exception is raised and ends the iterator,
\* which cancels the futures not yet yielded.
iter_next ==
    /\ pc = "idle" /\ iter.state = "active"
    /\ IF iter.fs = <<>>
       THEN /\ iter' = [iter EXCEPT !.state = "ended"]
            /\ last' = [op |-> "next", err |-> Raise("StopIteration", ""), args |-> <<>>]
            /\ UNCHANGED units
       ELSE LET u == Head(iter.fs)
            IN  /\ units[u].state = "FINISHED"
                /\ last' = [op |-> "next", err |-> units[u].exc, args |-> <<>>]
                /\ IF units[u].exc = NoErr
                   THEN /\ iter' = [iter EXCEPT
                              !.fs = Tail(@),
                              !.out = Append(@, [unit |-> u, value |-> units[u].result])]
                        /\ units' = [units EXCEPT ![u].seen = TRUE]
                   ELSE /\ iter' = [iter EXCEPT !.state = "ended", !.fs = <<>>]
                        /\ units' = [v \in 1..Len(units) |->
                                        IF v = u THEN [units[v] EXCEPT !.seen = TRUE]
                                        ELSE IF \E j \in 2..Len(iter.fs) : iter.fs[j] = v
                                        THEN cancel(units[v])
                                        ELSE units[v]]
    /\ UNCHANGED <<objs, chunksIn, chunksOut, rp, pool, pc, workQueue, callQueue,
                   ctx, conns, env>>

\* result() on the future returned by single_request, once it is finished
future_result ==
    /\ pc = "idle"
    /\ \E u \in 1..Len(units) :
          /\ units[u].via = "single"
          /\ units[u].state = "FINISHED"
          /\ ~units[u].seen
          /\ units' = [units EXCEPT ![u].seen = TRUE]
          /\ last' = [op |-> "result", err |-> units[u].exc, args |-> <<>>]
    /\ UNCHANGED <<objs, chunksIn, chunksOut, rp, pool, pc, workQueue, callQueue,
                   ctx, conns, iter, env>>

(***************************************************************************)
(* The two operations without pool state.                                  *)
(***************************************************************************)
EndpointArgs == {PyStr("/"), PyStr("/hello"), PyList(<<>>)}
MethodArgs == {PyChars(<<"G", "E", "T">>), PyChars(<<"g", "e", "t">>),
               PyChars(<<"P", "O", "S", "T">>), PyChars(<<"P", "o", "s", "t">>),
               PyChars(<<"H", "E", "L", "P">>), PyList(<<>>), PySet}
DataArgs == {PyNone, PyDict(<<>>), PyDict(<<<<"a", "string">>>>), PyStr("string")}

\* the caller constructs a RequestInfo
new_RequestInfo ==
    /\ Len(objs) < MaxObjs
    /\ \E endpoint \in EndpointArgs, method \in MethodArgs, data \in DataArgs :
          LET r == RequestInfo_init(endpoint, method, data)
          IN  /\ objs' = IF r.err = NoErr THEN Append(objs, r.obj) ELSE objs
              /\ last' = [op |-> "RequestInfo", err |-> r.err,
                          args |-> <<endpoint, method, data>>]
    /\ UNCHANGED <<chunksIn, chunksOut>>
    /\ UNCHANGED poolVars

Elems == {D1, D2, PyInt(1)}
ArrayArgs == {PyList(xs) : xs \in SeqsUpTo(Elems, MaxLen)} \cup {PyDict(<<>>), PyInt(5)}
NArgs == {PyInt(k) : k \in (0 - 1)..MaxN} \cup {PyList(<<>>)}

\* call_chunks as it would be if chunks were refused by a dispatcher that is
\* shut down
call_chunks_needs_pool ==
    /\ chunksOut = NotCalled
    /\ chunksOut' = IF pool.state = "shutdown"
                    THEN [err |-> SchedulingError, out |-> <<>>]
                    ELSE chunks(chunksIn.array, chunksIn.n)
    /\ last' = [op |-> "chunks", err |-> chunksOut'.err, args |-> <<>>]
    /\ UNCHANGED <<objs, chunksIn>>
    /\ UNCHANGED poolVars

\* the caller consumes chunks(array, n) of the arguments drawn initially
call_chunks ==
    /\ chunksOut = NotCalled
    /\ chunksOut' = chunks(chunksIn.array, chunksIn.n)
    /\ last' = [op |-> "chunks", err |-> chunksOut'.err, args |-> <<>>]
    /\ UNCHANGED <<objs, chunksIn>>
    /\ UNCHANGED poolVars

(***************************************************************************)
(* Specifications.                                                         *)
(***************************************************************************)
InitPool ==
    /\ rp = NoRP
    /\ pool = NoPool
    /\ pc = "idle"
    /\ units = <<>>
    /\ workQueue = <<>>
    /\ callQueue = <<>>
    /\ ctx = [c \in 0..MaxWorkers |-> IdleCtx]
    /\ conns = <<>>
    /\ iter = NoIter
    /\ env = [clock |-> {0}, bodies |-> {"b1"}, refuses |-> FALSE]

\* the request pool: construction, dispatch, execution, consumption, shutdown
Init ==
    /\ InitPool
    /\ objs = <<>>
    /\ last = NoOp
    /\ chunksIn = [array |-> PyList(<<>>), n |-> PyInt(1)]
    /\ chunksOut = NotCalled

Next ==
    \/ Construct
    \/ \E req_infos \in BatchArgs : batch_request(req_infos)
    \/ \E req_info \in SingleArgs : single_request(req_info)
    \/ \E req_infos \in DirectArgs : request(req_infos)
    \/ shutdown
    \/ shutdown_return
    \/ Feed
    \/ \E w \in Workers : WorkerTake(w)
    \/ \E c \in Contexts : request_send(c)
    \/ \E c \in Contexts : request_recv(c)
    \/ \E c \in Contexts : request_end(c)
    \/ iter_next
    \/ future_result

Spec == Init /\ [][Next]_vars

\* request called directly on a constructed RequestPool, against a server
\* that answers with any body and a clock that gives any reading
InitReq ==
    /\ rp = [state |-> "ok", hostname |-> PyStr("localhost"), port |-> PyInt(8081)]
    /\ pool = [state |-> "accepting", n_workers |-> 1]
    /\ pc = "idle"
    /\ units = <<>>
    /\ workQueue = <<>>
    /\ callQueue = <<>>
    /\ ctx = [c \in 0..MaxWorkers |-> IdleCtx]
    /\ conns = <<>>
    /\ iter = NoIter
    /\ env = [clock |-> Clock, bodies |-> Bodies, refuses |-> TRUE]
    /\ objs = <<>>
    /\ last = NoOp
    /\ chunksIn = [array |-> PyList(<<>>), n |-> PyInt(1)]
    /\ chunksOut = NotCalled

NextReq ==
    \/ \E req_infos \in Args : request(req_infos)
    \/ request_send(0)
    \/ request_recv(0)
    \/ request_end(0)

SpecReq == InitReq /\ [][NextReq]_vars

\* values given to single_request and, each as the one element of the one
\* partition, to batch_request
EquivArgs == {D1, D2, PyInt(1), PyList(<<D1, D2>>)}
EquivBatchArgs == {<<PyList(<<d>>)>> : d \in EquivArgs}

\* single_request and batch_request with one partition on a constructed
\* RequestPool with one worker, against a server that answers with any body,
\* answers badly or refuses, and a clock that gives any reading
InitEquiv ==
    /\ rp = [state |-> "ok", hostname |-> PyStr("localhost"), port |-> PyInt(8081)]
    /\ pool = [state |-> "accepting", n_workers |-> 1]
    /\ pc = "idle"
    /\ units = <<>>
    /\ workQueue = <<>>
    /\ callQueue = <<>>
    /\ ctx = [c \in 0..MaxWorkers |-> IdleCtx]
    /\ conns = <<>>
    /\ iter = NoIter
    /\ env = [clock |-> Clock, bodies |-> Bodies, refuses |-> TRUE]
    /\ objs = <<>>
    /\ last = NoOp
    /\ chunksIn = [array |-> PyList(<<>>), n |-> PyInt(1)]
    /\ chunksOut = NotCalled

NextEquiv ==
    \/ \E req_info \in EquivArgs : single_request(req_info)
    \/ \E req_infos \in EquivBatchArgs : batch_request(req_infos)
    \/ Feed
    \/ \E w \in Workers : WorkerTake(w)
    \/ \E c \in Contexts : request_send(c)
    \/ \E c \in Contexts : request_recv(c)
    \/ \E c \in Contexts : request_end(c)
    \/ iter_next
    \/ future_result

SpecEquiv == InitEquiv /\ [][NextEquiv]_vars

\* partitions given to batch_request where every request is well formed
GoodBatchArgs == SeqsUpTo({PyList(<<D1>>), PyList(<<D1, D2>>)}, MaxParts)

\* a constructed RequestPool with one worker or two
InitWorkers ==
    /\ rp = [state |-> "ok", hostname |-> PyStr("localhost"), port |-> PyInt(8081)]
    /\ pool \in [state : {"accepting"}, n_workers : 1..2]
    /\ pc = "idle"
    /\ units = <<>>
    /\ workQueue = <<>>
    /\ callQueue = <<>>
    /\ ctx = [c \in 0..MaxWorkers |-> IdleCtx]
    /\ conns = <<>>
    /\ iter = NoIter
    /\ env = [clock |-> {0}, bodies |-> {"b1"}, refuses |-> FALSE]
    /\ objs = <<>>
    /\ last = NoOp
    /\ chunksIn = [array |-> PyList(<<>>), n |-> PyInt(1)]
    /\ chunksOut = NotCalled

\* dispatch, execution, consumption and shutdown against a server that may
\* go silent on a request
NextSilent ==
    \/ \E req_infos \in GoodBatchArgs : batch_request(req_infos)
    \/ single_request(D1)
    \/ shutdown
    \/ shutdown_return
    \/ Feed
    \/ \E w \in Workers : WorkerTake(w)
    \/ \E c \in Contexts : request_send(c)
    \/ \E c \in Contexts : request_recv(c)
    \/ \E c \in Contexts : request_end(c)
    \/ \E k \in 1..Len(conns) : server_silent(k)
    \/ iter_next
    \/ future_result

SpecSilent == InitWorkers /\ [][NextSilent]_vars

\* one thread of the caller shuts the pool down while another dispatches
NextShutdown ==
    \/ \E req_info \in SingleArgs : single_request_thread(req_info)
    \/ \E req_infos \in BatchArgs : batch_request_thread(req_infos)
    \/ map_submit_thread
    \/ shutdown
    \/ shutdown_return
    \/ Feed
    \/ \E w \in Workers : WorkerTake(w)
    \/ \E c \in Contexts : request_send(c)
    \/ \E c \in Contexts : request_recv(c)
    \/ \E c \in Contexts : request_end(c)

SpecShutdown == InitWorkers /\ [][NextShutdown]_vars

\* arguments given to chunks by the caller of a dispatcher in use
PureIn == [array : {PyList(<<>>), PyList(<<D1, D2, D1>>), PyInt(5)},
           n : {PyInt(2), PyInt(0), PyInt(0 - 1)}]

\* chunks called at any moment of the life of a RequestPool: before and after
\* shutdown, with work pending, running or done
InitPure ==
    /\ rp = [state |-> "ok", hostname |-> PyStr("localhost"), port |-> PyInt(8081)]
    /\ pool = [state |-> "accepting", n_workers |-> 1]
    /\ pc = "idle"
    /\ units = <<>>
    /\ workQueue = <<>>
    /\ callQueue = <<>>
    /\ ctx = [c \in 0..MaxWorkers |-> IdleCtx]
    /\ conns = <<>>
    /\ iter = NoIter
    /\ env = [clock |-> {0}, bodies |-> {"b1"}, refuses |-> FALSE]
    /\ objs = <<>>
    /\ last = NoOp
    /\ chunksIn \in PureIn
    /\ chunksOut = NotCalled

NextPure ==
    \/ call_chunks
    \/ single_request(D1)
    \/ shutdown
    \/ shutdown_return
    \/ Feed
    \/ \E w \in Workers : WorkerTake(w)
    \/ \E c \in Contexts : request_send(c)
    \/ \E c \in Contexts : request_recv(c)
    \/ \E c \in Contexts : request_end(c)

SpecPure == InitPure /\ [][NextPure]_vars

\* partitions given to batch_request: a well formed one and one that request
\* rejects
LiveBatchArgs == SeqsUpTo({PyList(<<D1>>), PyList(<<D1, PyInt(1)>>)}, MaxParts)

\* dispatch, execution, consumption and shutdown with one worker or two,
\* where the executor and the worker processes are scheduled fairly and the
\* server answers every request, well or badly
NextLive ==
    \/ \E req_infos \in LiveBatchArgs : batch_request(req_infos)
    \/ single_request(D1)
    \/ shutdown
    \/ shutdown_return
    \/ Feed
    \/ \E w \in Workers : WorkerTake(w)
    \/ \E c \in Contexts : request_send(c)
    \/ \E c \in Contexts : request_recv(c)
    \/ \E c \in Contexts : request_end(c)
    \/ iter_next
    \/ future_result

FairLive ==
    /\ WF_vars(Feed)
    /\ WF_vars(\E w \in Workers : WorkerTake(w))
    /\ \A c \in 1..MaxWorkers :
          /\ WF_vars(request_send(c))
          /\ WF_vars(request_recv(c))
          /\ WF_vars(request_end(c))
    /\ WF_vars(shutdown_return)

SpecLive == InitWorkers /\ [][NextLive]_vars /\ FairLive

\* chunks on every array and chunk size of the bounded sets
InitChunks ==
    /\ InitPool
    /\ objs = <<>>
    /\ last = NoOp
    /\ chunksIn \in [array : ArrayArgs, n : NArgs]
    /\ chunksOut = NotCalled

NextChunks == call_chunks

SpecChunks == InitChunks /\ [][NextChunks]_vars

\* RequestInfo construction
NextInfo == new_RequestInfo

SpecInfo == Init /\ [][NextInfo]_vars

(***************************************************************************)
(* Properties.                                                             *)
(***************************************************************************)
UnitIds == 1..Len(units)

\* the units of the batch_request call, in submission order
BatchIds == SelectSeq([u \in UnitIds |-> u], LAMBDA u : units[u].via = "batch")

\* C1: the sequence returned by batch_request yields the partitions' results
\* in submission order: the j-th value yielded is the result of the j-th
\* partition submitted, whatever the order in which the partitions completed.
C1_SubmissionOrder ==
    /\ Len(iter.out) <= Len(BatchIds)
    /\ \A j \in 1..Len(iter.out) :
          /\ iter.out[j].unit = BatchIds[j]
          /\ iter.out[j].value = units[BatchIds[j]].result

\* both partitions were yielded, and the second one had completed first
C1_Witness ==
    /\ Len(iter.out) = 2
    /\ units[iter.out[2].unit].overtook

\* C2 as stated: once shutdown has returned, every single_request and every
\* batch_request call raises the scheduling error and schedules nothing, and
\* the pool stays shut down.
C2_AsStated ==
    [][/\ pool.state = "shutdown" => pool'.state = "shutdown"
       /\ \A req_infos \in BatchArgs :
             (pool.state = "shutdown" /\ batch_request(req_infos))
                 => (last'.err = SchedulingError /\ units' = units
                     /\ workQueue' = workQueue)
       /\ \A req_info \in SingleArgs :
             (pool.state = "shutdown" /\ single_request(req_info))
                 => (last'.err = SchedulingError /\ units' = units
                     /\ workQueue' = workQueue)]_vars

\* C2 amended: once shutdown has returned, every single_request call and every
\* batch_request call with at least one partition raises the scheduling error;
\* a batch_request call with no partition raises nothing and returns an empty
\* sequence; no call after shutdown schedules work, and the pool stays shut
\* down.
C2_RejectsWorkAfterShutdown ==
    [][/\ pool.state = "shutdown" => pool'.state = "shutdown"
       /\ \A req_infos \in BatchArgs :
             (pool.state = "shutdown" /\ batch_request(req_infos))
                 => /\ units' = units /\ workQueue' = workQueue
                    /\ IF Len(req_infos) > 0
                       THEN last'.err = SchedulingError /\ iter' = iter
                       ELSE last'.err = NoErr /\ iter'.fs = <<>>
       /\ \A req_info \in SingleArgs :
             (pool.state = "shutdown" /\ single_request(req_info))
                 => (last'.err = SchedulingError /\ units' = units
                     /\ workQueue' = workQueue)]_vars

\* after shutdown returned, a dispatch call was made and was rejected
C2_Witness ==
    /\ pool.state = "shutdown" /\ pc = "idle"
    /\ last.op \in {"single", "batch"}
    /\ last.err = SchedulingError
    /\ Len(units) > 0

\* C3: when shutdown has returned, no unit of work submitted or mapped before
\* is pending or running, and every future handed out by single_request is
\* finished, with its result or its exception.
C3_ShutdownWaits ==
    (pool.state = "shutdown" /\ pc = "idle") =>
        \A u \in UnitIds :
            /\ units[u].state \in {"FINISHED", "CANCELLED"}
            /\ units[u].via = "single" => units[u].state = "FINISHED"

\* after shutdown returned, the result of a future was obtained from it
C3_Witness ==
    /\ pool.state = "shutdown" /\ pc = "idle"
    /\ last.op = "result" /\ last.err = NoErr
    /\ \E u \in UnitIds :
          units[u].via = "single" /\ units[u].seen /\ Len(units[u].result) = 1

RECURSIVE Flatten(_)
Flatten(ss) == IF ss = <<>> THEN <<>> ELSE Head(ss) \o Flatten(Tail(ss))

\* the least k with k * n >= L, for n >= 1
CeilDiv(L, n) == CHOOSE k \in 0..L : k * n >= L /\ (k = 0 \/ (k - 1) * n < L)

ConnsOf(u) == {k \in 1..Len(conns) : conns[k].unit = u}

\* C5: a call of request that returns gives one tuple per descriptor, in the
\* order of the descriptors: the i-th tuple holds the body of the i-th
\* response read on the call's connection, which answers the request sent
\* for the i-th descriptor, and the endpoint of the i-th descriptor.
C5_ResultsInOrder ==
    \A u \in UnitIds :
        (units[u].state = "FINISHED" /\ units[u].exc = NoErr) =>
            /\ ValidArg(units[u].arg)
            /\ Len(units[u].result) = Len(units[u].arg.xs)
            /\ \A k \in ConnsOf(u) :
                  /\ Len(conns[k].sent) = Len(units[u].arg.xs)
                  /\ Len(conns[k].recv) = Len(units[u].arg.xs)
                  /\ \A i \in 1..Len(units[u].arg.xs) :
                        /\ conns[k].sent[i] = http_request(units[u].arg.xs[i])
                        /\ units[u].result[i][1] = conns[k].recv[i]
                        /\ units[u].result[i][3] = units[u].arg.xs[i].endpoint

\* request returned two tuples with different bodies
C5_Witness ==
    \E u \in UnitIds :
        /\ units[u].state = "FINISHED" /\ units[u].exc = NoErr
        /\ Len(units[u].result) = 2
        /\ units[u].result[1][1] # units[u].result[2][1]
        /\ ConnsOf(u) # {}

\* C6: a call of request whose argument is not a list, or has an element that
\* is not a RequestInfo, creates no connection and sends nothing, and it ends
\* with a TypeError.
C6_ValidatedBeforeIO ==
    \A u \in UnitIds :
        ~ValidArg(units[u].arg) =>
            /\ ConnsOf(u) = {}
            /\ units[u].state = "FINISHED" =>
                  /\ units[u].exc.kind = "TypeError"
                  /\ units[u].result = <<>>

\* request was called with a list whose second element is not a RequestInfo,
\* and has raised
C6_Witness ==
    \E u \in UnitIds :
        /\ units[u].arg = PyList(<<D1, PyInt(1)>>)
        /\ units[u].state = "FINISHED"
        /\ units[u].exc = Raise("TypeError", "Unsupported Type for Input Elements")

ConstructionMsgs == {"Hostname not given as string", "Port not given as int.",
                     "Blank hostname given", "Invalid port number given"}

\* a worker count the executor accepts
ValidWorkers(n) == n.t = "NoneType" \/ (n.t = "int" /\ n.n >= 1)

C8_NoPoolAfterFailedInit ==
    (last.op = "init" /\ last.err.msg \in ConstructionMsgs) => pool.state = "none"

\* C9: construction with a worker count that is not an integer raises the
\* TypeError "Number of workers not given as int", and creates no pool.
C9_WorkerCountTypeError ==
    (last.op = "init" /\ last.args[1].t # "int") =>
        /\ last.err = Raise("TypeError", "Number of workers not given as int")
        /\ pool.state = "none"
        /\ rp.state = "none"

GET == PyChars(<<"G", "E", "T">>)
POST == PyChars(<<"P", "O", "S", "T">>)

\* C10: constructing a RequestInfo raises TypeError when endpoint or method is
\* not a str or data is neither None nor a dict, ValueError when the method is
\* not GET or POST, or is POST without data, or is GET with data; every
\* RequestInfo that exists has method GET or POST and has data exactly when
\* its method is POST.
C10_ValidOrFails ==
    /\ \A k \in 1..Len(objs) :
          /\ objs[k].method \in {GET, POST}
          /\ objs[k].data.t # "NoneType" <=> objs[k].method = POST
    /\ last.op = "RequestInfo" =>
          LET endpoint == last.args[1]
              method == last.args[2]
              data == last.args[3]
          IN  IF endpoint.t # "str" \/ method.t # "str"
                 \/ data.t \notin {"NoneType", "dict"}
              THEN last.err.kind = "TypeError"
              ELSE IF \/ PyChars(upper(method.cs)) \notin {GET, POST}
                      \/ (PyChars(upper(method.cs)) = POST /\ data.t = "NoneType")
                      \/ (PyChars(upper(method.cs)) = GET /\ data.t # "NoneType")
              THEN last.err.kind = "ValueError"
              ELSE last.err = NoErr

\* C11: two RequestInfo objects compare equal exactly when their endpoint,
\* method and data are equal, also when they are two distinct objects; a
\* RequestInfo never compares equal to a value that is not a RequestInfo.
C11_EqualIffFieldsEqual ==
    /\ \A i, j \in 1..Len(objs) :
          RequestInfo_eq(i, Ref(j)) <=>
              /\ objs[i].endpoint = objs[j].endpoint
              /\ objs[i].method = objs[j].method
              /\ objs[i].data = objs[j].data
    /\ \A i \in 1..Len(objs) :
          \A other \in {PyList(<<>>), PyNone, PyStr("/")} : ~RequestInfo_eq(i, other)

\* C12: a RequestInfo constructed without error has the endpoint and the data
\* given, and as method the given method with every lower-case letter
\* replaced by its upper-case letter, which holds no lower-case letter (so
\* that normalising it again changes nothing); "get" and "GET" give the same
\* method.
C12_RoundTrip ==
    /\ (last.op = "RequestInfo" /\ last.err = NoErr) =>
          LET obj == objs[Len(objs)]
              given == last.args[2].cs
          IN  /\ obj.endpoint = last.args[1]
              /\ obj.data = last.args[3]
              /\ Len(obj.method.cs) = Len(given)
              /\ \A i \in 1..Len(given) :
                    /\ obj.method.cs[i] = UpperChar(given[i])
                    /\ \A l \in 1..26 : obj.method.cs[i] # LowerCase[l]
              /\ upper(obj.method.cs) = obj.method.cs
              /\ given \in {<<"g", "e", "t">>, <<"G", "E", "T">>} => obj.method = GET

\* a RequestInfo was constructed with method "Post" and data
C12_Witness ==
    /\ last.op = "RequestInfo" /\ last.err = NoErr
    /\ last.args = <<PyStr("/hello"), PyChars(<<"P", "o", "s", "t">>),
                     PyDict(<<<<"a", "string">>>>)>>
    /\ objs[Len(objs)].method = POST
    /\ objs[Len(objs)].data = PyDict(<<<<"a", "string">>>>)

\* C13: chunks with an integer chunk size n <= 0 raises an error and gives no
\* chunk sequence.
C13_NonPositiveRejected ==
    (/\ chunksOut # NotCalled
     /\ chunksIn.n.t = "int" /\ chunksIn.n.n <= 0) =>
        chunksOut.err # NoErr

\* C14: chunks raises TypeError and gives no chunk when n is not an int, when
\* array is not a list, or when an element of array is not a RequestInfo.
C14_ChunksTypeErrors ==
    (/\ chunksOut # NotCalled
     /\ \/ chunksIn.n.t # "int"
        \/ chunksIn.array.t # "list"
        \/ \E k \in 1..Len(chunksIn.array.xs) : chunksIn.array.xs[k].t # "RequestInfo") =>
        /\ chunksOut.err.kind = "TypeError"
        /\ chunksOut.out = <<>>

\* the exceptions of the transport (http.client, socket)
TransportKinds == {"ConnectionRefusedError", "BadStatusLine"}

\* C15: a transport failure raised while a worker runs request is not raised
\* by single_request or batch_request; the future keeps it unchanged and the
\* caller gets exactly it when consuming that future (result(), or next() at
\* that position); the unit is not run again and every RequestInfo of a unit
\* is sent at most once, on the one connection of the unit.
C15_TransportFailureAtConsumption ==
    /\ [](/\ last.op \in {"single", "batch"} => last.err.kind \notin TransportKinds
          /\ \A u \in UnitIds :
                /\ Cardinality(ConnsOf(u)) <= 1
                /\ units[u].state = "FINISHED" =>
                      \A c \in DOMAIN ctx : ctx[c].unit # u
                /\ \A k \in ConnsOf(u) :
                      /\ Len(conns[k].sent) <= Len(units[u].arg.xs)
                      /\ \A i \in 1..Len(conns[k].sent) :
                            conns[k].sent[i] = http_request(units[u].arg.xs[i]))
    /\ [][\A u \in UnitIds :
             /\ (units[u].state = "FINISHED") =>
                   /\ units'[u].state = "FINISHED"
                   /\ units'[u].exc = units[u].exc
                   /\ \A k \in ConnsOf(u) : conns'[k] = conns[k]
             /\ (~units[u].seen /\ units'[u].seen) =>
                   /\ last'.op \in {"next", "result"}
                   /\ last'.err = units[u].exc
             /\ (/\ units[u].via # "direct"
                 /\ units[u].state # "FINISHED"
                 /\ units'[u].state = "FINISHED") => last' = last]_vars

\* the second request of a partition got a malformed response in its worker,
\* and next() raised that failure at the partition's position
C15_Witness ==
    /\ last.op = "next"
    /\ last.err = Raise("BadStatusLine", "transport")
    /\ \E u \in UnitIds :
          /\ units[u].via = "batch" /\ units[u].seen
          /\ units[u].exc = Raise("BadStatusLine", "transport")
          /\ \E k \in ConnsOf(u) : Len(conns[k].sent) = 2 /\ Len(conns[k].recv) = 1

\* C16: a partition of batch_request that has been handed to the workers is
\* never cancelled: it stays running until it finishes, either with one
\* result per RequestInfo or with its own exception; a step in which another
\* unit fails, or in which the failure of another unit is consumed, leaves
\* it and the progress of its worker unchanged, and leaves it in the call
\* queue if it waits there.
C16_NoCancelInFlight ==
    [][\A u \in UnitIds :
          (units[u].via = "batch" /\ units[u].state = "RUNNING") =>
              /\ units'[u].state \in {"RUNNING", "FINISHED"}
              /\ units'[u].state = "FINISHED" =>
                    \/ /\ units'[u].exc = NoErr
                       /\ Len(units'[u].result) = Len(units[u].arg.xs)
                       /\ \A k \in ConnsOf(u) :
                             Len(conns'[k].recv) = Len(units[u].arg.xs)
                    \/ /\ units'[u].exc # NoErr
                       /\ \/ \E c \in DOMAIN ctx : ctx[c].unit = u /\ ctx'[c].unit = 0
                          \/ callQueue # <<>> /\ Head(callQueue) = u
              /\ (\E v \in UnitIds \ {u} :
                     \/ /\ units[v].state # "FINISHED"
                        /\ units'[v].state = "FINISHED" /\ units'[v].exc # NoErr
                     \/ /\ ~units[v].seen /\ units'[v].seen
                        /\ units[v].exc # NoErr) =>
                    /\ units'[u] = units[u]
                    /\ \A c \in DOMAIN ctx : ctx[c].unit = u => ctx'[c] = ctx[c]
                    /\ (\E j \in 1..Len(callQueue) : callQueue[j] = u) =>
                          (\E j \in 1..Len(callQueue') : callQueue'[j] = u)]_vars

\* next() raised the failure of the first partition while the second
\* partition was running, with one response read and one request to go
C16_Witness ==
    /\ last.op = "next" /\ last.err.kind \in TransportKinds
    /\ iter.state = "ended"
    /\ \E u \in UnitIds :
          /\ units[u].via = "batch" /\ units[u].state = "RUNNING"
          /\ \E k \in ConnsOf(u) : Len(conns[k].recv) = 1
          /\ \E v \in 1..(u - 1) :
                units[v].via = "batch" /\ units[v].seen /\ units[v].exc = last.err

\* C17 as stated: batch_request and single_request raise the TypeError of an
\* invalid partition (not a list, or with an element that is not a
\* RequestInfo) themselves, and hand no unit of work with such a partition to
\* the pool.
C17_ValidatedAtDispatch ==
    \A u \in UnitIds :
        units[u].via \in {"batch", "single"} => ValidArg(units[u].arg)

\* C17 amended: batch_request and single_request never raise the TypeError of
\* an invalid partition: on a pool that accepts work they schedule one unit
\* per partition whatever the partition is.  The TypeError is raised by
\* request when the unit runs, before any connection is created, is kept by
\* the future, and is raised to the caller when it consumes that future.
C17_ValidatedInWorker ==
    /\ [](/\ last.op \in {"single", "batch"} => last.err \in {NoErr, SchedulingError}
          /\ \A u \in UnitIds :
                (/\ units[u].via \in {"batch", "single"}
                 /\ ~ValidArg(units[u].arg)
                 /\ units[u].state = "FINISHED") =>
                    /\ units[u].exc.kind = "TypeError"
                    /\ ConnsOf(u) = {})
    /\ [][/\ \A req_info \in SingleArgs :
                (pool.state = "accepting" /\ single_request(req_info)) =>
                    /\ units' = Append(units, NewUnit("single", PyList(<<req_info>>),
                                                      "PENDING"))
                    /\ workQueue' = Append(workQueue, Len(units) + 1)
          /\ \A req_infos \in BatchArgs :
                (pool.state = "accepting" /\ batch_request(req_infos)) =>
                    /\ Len(units') = Len(units) + Len(req_infos)
                    /\ \A k \in 1..Len(req_infos) :
                          units'[Len(units) + k] = NewUnit("batch", req_infos[k], "PENDING")
          /\ \A u \in UnitIds :
                (~units[u].seen /\ units'[u].seen /\ ~ValidArg(units[u].arg)) =>
                    /\ last'.err = units[u].exc
                    /\ last'.err.kind = "TypeError"]_vars

\* single_request was given a value that is not a RequestInfo and returned a
\* future; result() on that future raised the TypeError
C17_Witness ==
    /\ last.op = "result"
    /\ last.err = Raise("TypeError", "Unsupported Type for Input Elements")
    /\ \E u \in UnitIds :
          /\ units[u].via = "single" /\ units[u].arg = PyList(<<PyInt(1)>>)
          /\ units[u].seen

\* C19 as stated: after shutdown of the RequestPool, a call of request made by
\* the caller raises the scheduling error: it never gets as far as creating its
\* connection and sending.
C19_RequestAfterShutdown ==
    pool.state = "shutdown" =>
        /\ pc # "request"
        /\ last.op = "request" => last.err = SchedulingError

\* C19 amended: shutdown of the RequestPool does not affect request called by
\* the caller: after shutdown such a call runs as before it, with a
\* connection of its own for a valid list and the TypeError for any other
\* argument; it never raises the scheduling error and leaves the pool shut
\* down.
C19_RequestUnaffectedByShutdown ==
    /\ [](last.op = "request" => last.err # SchedulingError)
    /\ [][\A req_infos \in DirectArgs :
             (pool.state = "shutdown" /\ request(req_infos)) =>
                 /\ pool' = pool
                 /\ Len(units') = Len(units) + 1
                 /\ units'[Len(units')].via = "direct"
                 /\ units'[Len(units')].arg = req_infos
                 /\ IF ValidArg(req_infos)
                    THEN /\ pc' = "request"
                         /\ units'[Len(units')].state = "RUNNING"
                         /\ Len(conns') = Len(conns) + 1
                         /\ conns'[Len(conns')].unit = Len(units')
                    ELSE /\ pc' = "idle"
                         /\ last'.op = "request" /\ last'.err.kind = "TypeError"
                         /\ conns' = conns]_vars

\* after shutdown returned, request was called with two descriptors and
\* returned their two results
C19_Witness ==
    /\ pool.state = "shutdown" /\ pc = "idle"
    /\ last.op = "request" /\ last.err = NoErr
    /\ units[Len(units)].via = "direct"
    /\ Len(units[Len(units)].result) = 2
    /\ \A u \in UnitIds : units[u].via = "direct" => u = Len(units)

Sent(u) == IF ConnsOf(u) = {} THEN <<>> ELSE conns[CHOOSE k \in ConnsOf(u) : TRUE].sent
Recv(u) == IF ConnsOf(u) = {} THEN <<>> ELSE conns[CHOOSE k \in ConnsOf(u) : TRUE].recv
Transport(u) == IF units[u].exc.kind \in TransportKinds THEN units[u].exc.kind ELSE "none"

\* two finished calls of request that got the same from the transport sent
\* the same requests in the same order, each on one connection, and gave the
\* same outcome: the same exception, or result tuples with the same bodies
\* and endpoints in the same order
Equivalent(u, v) ==
    (/\ units[u].state = "FINISHED" /\ units[v].state = "FINISHED"
     /\ Recv(u) = Recv(v) /\ Transport(u) = Transport(v)) =>
        /\ units[u].exc = units[v].exc
        /\ Sent(u) = Sent(v)
        /\ Cardinality(ConnsOf(u)) = Cardinality(ConnsOf(v))
        /\ Cardinality(ConnsOf(u)) <= 1
        /\ Len(units[u].result) = Len(units[v].result)
        /\ \A i \in 1..Len(units[u].result) :
              /\ units[u].result[i][1] = units[v].result[i][1]
              /\ units[u].result[i][3] = units[v].result[i][3]

C21_EmptyList ==
    \A u \in UnitIds :
        units[u].arg = PyList(<<>>) =>
            /\ Cardinality(ConnsOf(u)) = 1
            /\ \A k \in ConnsOf(u) :
                  /\ conns[k].sent = <<>> /\ conns[k].recv = <<>>
                  /\ conns[k].state = IF units[u].state = "FINISHED"
                                      THEN "closed" ELSE "created"
                  /\ conns[k].closes = IF units[u].state = "FINISHED" THEN 1 ELSE 0
            /\ units[u].state = "FINISHED" =>
                  units[u].exc = NoErr /\ units[u].result = <<>>

C21_Witness ==
    \E u \in UnitIds :
        /\ units[u].arg = PyList(<<>>)
        /\ units[u].state = "FINISHED" /\ units[u].result = <<>>
        /\ pc = "idle" /\ last.op = "request" /\ last.err = NoErr
        /\ \E k \in ConnsOf(u) : conns[k].closes = 1 /\ conns[k].sent = <<>>

\* the units made by batch_request
BatchSet == {u \in UnitIds : units[u].via = "batch"}

\* where unit u is: the number of its entries in the two queues, and the
\* workers that run it
Count(q, u) == Cardinality({j \in 1..Len(q) : q[j] = u})
Holders(u) == {c \in Workers : ctx[c].unit = u}
Tokens(u) == Count(workQueue, u) + Count(callQueue, u) + Cardinality(Holders(u))

\* an accepted batch call has made one unit for each partition, in order
OnePerPartition ==
    \A req_infos \in BatchArgs :
        (batch_request(req_infos) /\ last'.err = NoErr) =>
            /\ Len(units') = Len(units) + Len(req_infos)
            /\ Len(iter'.fs) = Len(req_infos)
            /\ \A k \in 1..Len(req_infos) :
                  /\ iter'.fs[k] = Len(units) + k
                  /\ units'[Len(units) + k].arg = req_infos[k]
                  /\ units'[Len(units) + k].via = "batch"
                  /\ Count(workQueue', Len(units) + k) = 1

\* a unit that a worker runs stays with that worker until it is finished, and
\* a unit that is finished or cancelled stays so
RunsOnOneWorker ==
    \A u \in BatchSet :
        /\ \A c \in Holders(u) :
              \/ ctx'[c].unit = u /\ units'[u].state = "RUNNING"
              \/ ctx'[c].unit = 0 /\ units'[u].state = "FINISHED"
        /\ units[u].state \in {"FINISHED", "CANCELLED"} =>
              /\ units'[u].state = units[u].state
              /\ \A c \in Workers : ctx'[c].unit # u

(***************************************************************************)
(* C22 as stated: batch makes one unit of work for each partition, and     *)
(* every partition is executed exactly once, by one worker: it is never    *)
(* executed twice, never split and never skipped.                          *)
(***************************************************************************)
C22_AsStated ==
    /\ [](\A u \in BatchSet :
            /\ units[u].state # "CANCELLED"
            /\ Tokens(u) = IF units[u].state = "FINISHED" THEN 0 ELSE 1
            /\ Cardinality(ConnsOf(u)) <= 1)
    /\ [][OnePerPartition /\ RunsOnOneWorker]_vars

(***************************************************************************)
(* C22: batch makes one unit of work for each partition; every partition   *)
(* is executed at most once, by one worker, and never split; it is         *)
(* executed exactly once unless it was cancelled, still pending, when the  *)
(* caller consumed the failure of an earlier partition of the sequence,    *)
(* and then it is never executed.                                          *)
(***************************************************************************)
C22_OncePerPartition ==
    /\ [](\A u \in BatchSet :
            /\ Cardinality(ConnsOf(u)) <= 1
            /\ IF units[u].state = "CANCELLED"
               THEN /\ Holders(u) = {} /\ Count(callQueue, u) = 0
                    /\ Count(workQueue, u) <= 1
                    /\ ConnsOf(u) = {}
                    /\ iter.state = "ended"
                    /\ \E v \in BatchSet :
                          v < u /\ units[v].exc # NoErr /\ units[v].seen
               ELSE Tokens(u) = IF units[u].state = "FINISHED" THEN 0 ELSE 1)
    /\ [][OnePerPartition /\ RunsOnOneWorker]_vars

C22_Witness ==
    /\ pool.n_workers = 1
    /\ \E u, v \in BatchSet :
          /\ u < v
          /\ units[u].state = "FINISHED" /\ units[u].exc = NoErr
          /\ units[v].state = "FINISHED" /\ units[v].exc = NoErr
          /\ \A w \in {u, v} : \E k \in ConnsOf(w) : conns[k].closes = 1

\* the connections not closed, and those that the execution in context c uses
Unclosed == {k \in 1..Len(conns) : conns[k].state # "closed"}
OwnedBy(c) == {k \in Unclosed : ctx[c].unit # 0 /\ conns[k].unit = ctx[c].unit}

(***************************************************************************)
(* C23: every connection that is not closed belongs to exactly one         *)
(* execution of request in progress, which runs the unit the connection    *)
(* was made for, and every execution in progress has exactly one such      *)
(* connection, the one it uses: no connection is shared, and none outlives *)
(* the execution it was made for.                                          *)
(***************************************************************************)
C23_ConnectionOwnership ==
    /\ \A k \in Unclosed :
          /\ Cardinality({c \in Contexts : k \in OwnedBy(c)}) = 1
          /\ \A c \in Contexts : k \in OwnedBy(c) => ctx[c].conn = k
    /\ \A c \in Contexts :
          ctx[c].unit # 0 => OwnedBy(c) = {ctx[c].conn}

\* the requests sent on connection k whose response has not been read
Outstanding(k) == Len(conns[k].sent) - Len(conns[k].recv)

(***************************************************************************)
(* C24: on the connection of a chunk at most one request is outstanding,   *)
(* and only while request waits for its response; a request is sent only   *)
(* when the responses to all the requests sent before it have been read.   *)
(***************************************************************************)
C24_OneOutstanding ==
    /\ [](/\ \A k \in 1..Len(conns) : Outstanding(k) \in {0, 1}
          /\ \A c \in Contexts :
                ctx[c].unit # 0 =>
                    /\ Outstanding(ctx[c].conn) = IF ctx[c].pc = "wait" THEN 1 ELSE 0
                    /\ Len(conns[ctx[c].conn].recv) = ctx[c].i)
    /\ [][\A k \in 1..Len(conns) :
             Len(conns'[k].sent) > Len(conns[k].sent) =>
                 /\ Outstanding(k) = 0
                 /\ Len(conns'[k].sent) = Len(conns[k].sent) + 1
                 /\ conns'[k].recv = conns[k].recv]_vars

C24_Witness ==
    \E c \in Workers :
        /\ ctx[c].pc = "wait"
        /\ Len(conns[ctx[c].conn].sent) = 2
        /\ Len(conns[ctx[c].conn].recv) = 1

\* worker c waits for a response that the server never sends
Silent(c) == ctx[c].unit # 0 /\ conns[ctx[c].conn].state = "silent"

\* after the step, no position of the sequence of batch_request from j on has
\* been yielded, and if j is the position that next() waits for, the sequence
\* is as it was
NotYieldedFrom(j) ==
    /\ \A i \in j..Len(iter.fs) :
          /\ ~units'[iter.fs[i]].seen
          /\ \A o \in 1..Len(iter'.out) : iter'.out[o].unit # iter.fs[i]
    /\ j = 1 => iter' = iter

(***************************************************************************)
(* C25: there is no timeout and no cancellation.  While the connection of  *)
(* a chunk never answers, no step changes its worker or its handle: the    *)
(* worker stays in the read, the handle stays not completed, the sequence  *)
(* of batch_request yields neither that position nor a later one, and a    *)
(* shutdown that was called does not return.  The other workers can still  *)
(* take calls and make every step of their chunks.                         *)
(***************************************************************************)
C25_NoTimeout ==
    /\ [](\A c \in Workers :
            Silent(c) =>
                /\ ctx[c].pc = "wait"
                /\ units[ctx[c].unit].state = "RUNNING"
                /\ pool.state = "shutdown" => pc = "shutdown"
                /\ \A d \in Workers \ {c} :
                      (ctx[d].unit # 0 /\ ~Silent(d)) =>
                          ENABLED (request_send(d) \/ request_recv(d) \/ request_end(d))
                /\ (callQueue # <<>> /\ \E d \in Workers : ctx[d].pc = "idle") =>
                      ENABLED (\E d \in Workers : WorkerTake(d)))
    /\ [][\A c \in Workers :
             Silent(c) =>
                 /\ ctx'[c] = ctx[c]
                 /\ conns'[ctx[c].conn] = conns[ctx[c].conn]
                 /\ units'[ctx[c].unit] = units[ctx[c].unit]
                 /\ pc = "shutdown" => pc' = "shutdown"
                 /\ \A j \in 1..Len(iter.fs) :
                       (iter.state = "active" /\ iter.fs[j] = ctx[c].unit) =>
                           NotYieldedFrom(j)]_vars

C25_Witness ==
    \E c \in Workers :
        /\ Silent(c)
        /\ pc = "shutdown"
        /\ iter.state = "active" /\ iter.fs # <<>> /\ Head(iter.fs) = ctx[c].unit
        /\ workQueue = <<>> /\ callQueue = <<>>
        /\ \E v \in BatchSet :
              /\ v > ctx[c].unit
              /\ units[v].state = "FINISHED" /\ units[v].exc = NoErr

(***************************************************************************)
(* C26: single_request and batch_request return without waiting for any    *)
(* unit of work.  Whatever the workers do (all of them busy, or one waiting *)
(* on a server that never answers), the call can be made, and the step     *)
(* that makes it leaves the caller free, the new units pending and the      *)
(* workers and the earlier units as they were.                              *)
(***************************************************************************)
C26_DispatchDoesNotWait ==
    /\ []((pc = "idle" /\ rp.state = "ok") =>
            /\ Len(units) < MaxUnits => ENABLED single_request(D1)
            /\ (Len(units) < MaxUnits /\ iter.state = "none") =>
                  ENABLED batch_request(<<PyList(<<D1>>)>>))
    /\ [][Len(units') > Len(units) =>
             /\ pc = "idle" /\ pc' = "idle"
             /\ last'.op \in {"single", "batch"} /\ last'.err = NoErr
             /\ ctx' = ctx /\ callQueue' = callQueue /\ conns' = conns
             /\ \A u \in 1..Len(units') :
                   IF u <= Len(units) THEN units'[u] = units[u]
                   ELSE units'[u].state = "PENDING"]_vars

C26_Witness ==
    /\ pc = "idle" /\ last.op = "single" /\ last.err = NoErr
    /\ units[Len(units)].via = "single" /\ units[Len(units)].state = "PENDING"
    /\ \A w \in Workers : Silent(w)
    /\ Len(workQueue) = 1 /\ callQueue = <<>>

\* a submit made by the second thread is rejected, and makes no unit, if the
\* pool is shut down, and makes its unit otherwise
RejectedOrAccepted ==
    /\ \A req_info \in SingleArgs :
          single_request_thread(req_info) =>
              IF pool.state = "shutdown"
              THEN last'.err = SchedulingError /\ units' = units
                   /\ workQueue' = workQueue
              ELSE /\ last'.err = NoErr /\ Len(units') = Len(units) + 1
                   /\ Count(workQueue', Len(units) + 1) = 1
    /\ map_submit_thread =>
          IF pool.state = "shutdown"
          THEN last'.err = SchedulingError /\ units' = units
               /\ workQueue' = workQueue /\ iter'.state = "none"
          ELSE /\ Len(units') = Len(units) + 1
               /\ units'[Len(units) + 1].arg = Head(iter.todo)
               /\ Count(workQueue', Len(units) + 1) = 1
    /\ \A u \in UnitIds : units'[u].arg = units[u].arg

(***************************************************************************)
(* C27: with one thread of the caller in shutdown and another dispatching, *)
(* a unit of work is either rejected with the scheduling error and is      *)
(* never made, or accepted: an accepted unit stays in the executor (one    *)
(* entry in a queue or one worker) until it is finished, some step of the  *)
(* executor or of a worker is possible while a unit is not finished, and   *)
(* shutdown returns only when every accepted unit is finished.             *)
(***************************************************************************)
C27_NoWorkLost ==
    /\ [](/\ \A u \in UnitIds :
                /\ units[u].state \in {"PENDING", "RUNNING", "FINISHED"}
                /\ Tokens(u) = IF units[u].state = "FINISHED" THEN 0 ELSE 1
          /\ (\E u \in UnitIds : units[u].state # "FINISHED") =>
                ENABLED (\/ Feed
                         \/ \E w \in Workers : WorkerTake(w)
                         \/ \E c \in Workers : request_send(c)
                         \/ \E c \in Workers : request_recv(c)
                         \/ \E c \in Workers : request_end(c))
          /\ (pool.state = "shutdown" /\ pc = "idle") =>
                \A u \in UnitIds : units[u].state = "FINISHED")
    /\ [][RejectedOrAccepted]_vars

\* shutdown came between two submits of one batch_request: the call raised,
\* the partition submitted before ran, and shutdown has returned
C27_Witness ==
    /\ pool.state = "shutdown" /\ pc = "idle"
    /\ last.op = "batch" /\ last.err = SchedulingError
    /\ \E u \in BatchSet :
          /\ units[u].state = "FINISHED"
          /\ units[u].exc = NoErr /\ units[u].result # <<>>

(***************************************************************************)
(* C28: the i-th request sent on the connection of a call of request has   *)
(* the method and the endpoint of the i-th RequestInfo.  If its data is     *)
(* None the request has no body and no Content-Length header; otherwise    *)
(* its body is the JSON text of the data ({"hello": "world"} for that      *)
(* payload) and its Content-Length header is the number of bytes of the    *)
(* body.                                                                   *)
(***************************************************************************)
C28_RequestAsDescribed ==
    \A k \in 1..Len(conns) :
        \A i \in 1..Len(conns[k].sent) :
            LET m == conns[k].sent[i]
                req_info == units[conns[k].unit].arg.xs[i]
            IN  /\ m.method = req_info.method
                /\ m.url = req_info.endpoint
                /\ IF req_info.data = PyNone
                   THEN /\ m.body = <<>>
                        /\ "Content-Length" \notin m.headers
                   ELSE /\ m.body = json_dumps(req_info.data)
                        /\ req_info.data = PyDict(<<<<"hello", "world">>>>) =>
                              m.body = <<"{", "\"", "h", "e", "l", "l", "o", "\"", ":", " ",
                                         "\"", "w", "o", "r", "l", "d", "\"", "}">>
                        /\ "Content-Length" \in m.headers
                        /\ m.content_length = Len(m.body)

C28_Witness ==
    \E k \in 1..Len(conns) :
        /\ Len(conns[k].sent) = 2
        /\ conns[k].sent[1].method = PyChars(<<"G", "E", "T">>)
        /\ conns[k].sent[1].body = <<>>
        /\ conns[k].sent[2].method = PyChars(<<"P", "O", "S", "T">>)
        /\ conns[k].sent[2].url = PyStr("/a")
        /\ conns[k].sent[2].content_length = 18

\* unit u has been taken by a worker process
Started(u) == units[u].state = "FINISHED" \/ Holders(u) # {}

\* the units handed to the pool
PoolIds == {u \in UnitIds : units[u].via \in {"batch", "single"}}

(***************************************************************************)
(* C29: the workers take the units in the order of submission: when a unit *)
(* has been taken by a worker, every unit submitted before it has been     *)
(* taken too, or was cancelled and is never taken.  A unit taken by a      *)
(* worker stays with that worker until it is finished, and is never taken  *)
(* again.                                                                  *)
(***************************************************************************)
C29_FifoNoRebalancing ==
    /\ [](\A u, v \in PoolIds :
            (u < v /\ Started(v)) => (Started(u) \/ units[u].state = "CANCELLED"))
    /\ [][\A u \in PoolIds :
             /\ \A c \in Holders(u) :
                   /\ \A d \in Workers \ {c} : ctx'[d].unit # u
                   /\ \/ ctx'[c].unit = u /\ units'[u].state = "RUNNING"
                      \/ ctx'[c].unit = 0 /\ units'[u].state = "FINISHED"
             /\ units[u].state \in {"FINISHED", "CANCELLED"} =>
                   \A c \in Workers : ctx'[c].unit # u
             /\ (~Started(u) /\ Started(u)') =>
                   /\ callQueue # <<>> /\ Head(callQueue) = u
                   /\ \A v \in PoolIds : v < u =>
                         (Started(v) \/ units[v].state = "CANCELLED")]_vars

C29_Witness ==
    /\ pool.n_workers = 2
    /\ \E u, v \in PoolIds :
          /\ u < v
          /\ ctx[1].unit = u /\ ctx[1].pc = "wait"
          /\ ctx[2].unit = v /\ ctx[2].pc = "wait"

(***************************************************************************)
(* C30: the sequence of batch_request is consumed one position at a time.  *)
(* next() is possible as soon as the partition of the next position is     *)
(* finished, whatever the state of the later partitions; the step yields   *)
(* the result of that partition and leaves the later ones as they are.     *)
(***************************************************************************)
C30_IncrementalConsumption ==
    /\ []((/\ pc = "idle" /\ iter.state = "active" /\ iter.fs # <<>>
           /\ units[Head(iter.fs)].state = "FINISHED") => ENABLED iter_next)
    /\ [][Len(iter'.out) > Len(iter.out) =>
             /\ iter'.out = Append(iter.out, [unit |-> Head(iter.fs),
                                              value |-> units[Head(iter.fs)].result])
             /\ iter'.fs = Tail(iter.fs) /\ iter'.state = "active"
             /\ \A j \in 2..Len(iter.fs) : units'[iter.fs[j]] = units[iter.fs[j]]
             /\ <<workQueue', callQueue', ctx'>> = <<workQueue, callQueue, ctx>>]_vars

C30_Witness ==
    /\ iter.state = "active" /\ Len(iter.out) = 1 /\ last.op = "next"
    /\ iter.out[1].value # <<>>
    /\ iter.fs # <<>>
    /\ units[Head(iter.fs)].state \in {"PENDING", "RUNNING"}

(***************************************************************************)
(* C31: chunks is pure.  The step that calls it changes nothing of the     *)
(* dispatcher, of the pool, of the units of work and of the connections,   *)
(* and leaves its input as it was; its result is the function chunks of    *)
(* its two arguments alone, the same with the dispatcher accepting work    *)
(* and with the dispatcher shut down.                                      *)
(***************************************************************************)
C31_ChunksPure ==
    /\ [](chunksOut # NotCalled => chunksOut = chunks(chunksIn.array, chunksIn.n))
    /\ [][chunksOut' # chunksOut =>
             /\ chunksIn' = chunksIn
             /\ <<rp', pool', pc'>> = <<rp, pool, pc>>
             /\ <<units', workQueue', callQueue', ctx'>> = <<units, workQueue, callQueue, ctx>>
             /\ <<conns', iter', env'>> = <<conns, iter, env>>]_vars

C31_Witness ==
    /\ pool.state = "shutdown"
    /\ last.op = "chunks" /\ last.err = NoErr
    /\ Len(chunksOut.out) = 2
    /\ \E u \in UnitIds : units[u].state = "FINISHED"

(***************************************************************************)
(* C32: the pool's worker count and state and the dispatcher's hostname    *)
(* and port change only in a step of construction or in the call of        *)
(* shutdown, and the call of shutdown changes only the pool's state, to    *)
(* shut down: no dispatch, no execution, no consumption and no failure of  *)
(* a unit of work changes any of them.                                     *)
(***************************************************************************)
C32_OnlyInitAndShutdown ==
    [][/\ (pool' # pool \/ rp' # rp) => (Construct \/ shutdown)
       /\ (pool'.n_workers # pool.n_workers \/ rp' # rp) => Construct
       /\ (pool'.state # pool.state /\ ~Construct) =>
             /\ pool.state = "accepting" /\ pool'.state = "shutdown"
             /\ last'.op = "shutdown"]_vars

C32_Witness ==
    /\ rp.state = "ok" /\ rp.port = PyInt(8081)
    /\ pool.state = "accepting" /\ pool.n_workers = 2
    /\ \E u \in PoolIds : units[u].state = "FINISHED" /\ units[u].exc # NoErr
    /\ \E u \in UnitIds : units[u].via = "direct" /\ units[u].state = "FINISHED"

(***************************************************************************)
(* C33: the elapsed time of every result tuple made by request, the clock  *)
(* reading after the response was read minus the reading before the        *)
(* request was sent, is at least 0, whatever the clock reads.              *)
(***************************************************************************)
C33_ElapsedNonNegative ==
    /\ \A u \in UnitIds :
          \A j \in 1..Len(units[u].result) : units[u].result[j][2] >= 0
    /\ \A c \in Contexts :
          \A j \in 1..Len(ctx[c].results) : ctx[c].results[j][2] >= 0

(***************************************************************************)
(* C34: a call of request that has returned or raised has left no          *)
(* connection open: the connection of a finished call is closed, also      *)
(* when the call ended with a transport failure.                           *)
(***************************************************************************)
C34_ClosedOnEveryPath ==
    \A k \in 1..Len(conns) :
        units[conns[k].unit].state = "FINISHED" =>
            conns[k].state \notin {"open", "silent"}

\* the units that a worker runs, and the connections with an open socket
Executing == {u \in PoolIds : Holders(u) # {}}
OpenConns == {k \in 1..Len(conns) : conns[k].state \in {"open", "silent"}}

\* a unit of the pool that no worker runs yet waits in one of the queues,
\* without a connection
BeyondWait ==
    \A u \in PoolIds :
        (units[u].state \in {"PENDING", "RUNNING"} /\ u \notin Executing) =>
            /\ Count(workQueue, u) + Count(callQueue, u) = 1
            /\ ConnsOf(u) = {}

(***************************************************************************)
(* C35 as stated: at any moment at most N units of work execute and at     *)
(* most N connections are open, N being the worker count; the units beyond *)
(* N wait in the queue.                                                    *)
(***************************************************************************)
C35_AsStated ==
    /\ Cardinality(Executing) <= pool.n_workers
    /\ Cardinality(OpenConns) <= pool.n_workers
    /\ BeyondWait

(***************************************************************************)
(* C35: at any moment at most N units of work execute, each with one       *)
(* connection, so at most N connections are in use by the pool; the units  *)
(* beyond N wait in the queue without a connection.  Every other open      *)
(* connection is that of a call of request made by the caller itself or    *)
(* one that a failed call left open.                                       *)
(***************************************************************************)
C35_BoundedByWorkers ==
    /\ Cardinality(Executing) <= pool.n_workers
    /\ \A u \in Executing : Cardinality(ConnsOf(u)) = 1
    /\ Cardinality({k \in OpenConns : conns[k].unit \in Executing}) <= pool.n_workers
    /\ \A k \in OpenConns :
          \/ conns[k].unit \in Executing
          \/ units[conns[k].unit].via = "direct"
          \/ /\ units[conns[k].unit].state = "FINISHED"
             /\ units[conns[k].unit].exc # NoErr
    /\ BeyondWait

C35_Witness ==
    /\ pool.n_workers = 1
    /\ \E u \in Executing : \E k \in ConnsOf(u) : conns[k].state = "open"
    /\ \E v \in PoolIds : v \notin Executing /\ Count(callQueue, v) = 1

\* next() on the sequence of batch_request has something to return
Consumable ==
    /\ iter.state = "active"
    /\ iter.fs # <<>> => units[Head(iter.fs)].state = "FINISHED"

(***************************************************************************)
(* C36 as stated: under fair scheduling and a server that answers, every   *)
(* unit of work accepted is eventually finished, so that every position of *)
(* the sequence of batch_request can eventually be consumed, and a         *)
(* shutdown that was called eventually returns.                            *)
(***************************************************************************)
C36_AsStated ==
    /\ \A u \in 1..MaxUnits :
          (u \in PoolIds) ~> (u \in PoolIds /\ units[u].state = "FINISHED")
    /\ (pc = "shutdown") ~> (pc = "idle")

(***************************************************************************)
(* C36: under fair scheduling and a server that answers, every unit of     *)
(* work accepted is eventually finished or cancelled, next() on a sequence *)
(* that has not ended eventually has something to return, and a shutdown   *)
(* that was called eventually returns.                                     *)
(***************************************************************************)
C36_EventuallyDone ==
    /\ \A u \in 1..MaxUnits :
          (u \in PoolIds) ~>
              (u \in PoolIds /\ units[u].state \in {"FINISHED", "CANCELLED"})
    /\ (iter.state = "active") ~> (Consumable \/ iter.state = "ended")
    /\ (pc = "shutdown") ~> (pc = "idle")

C36_Witness ==
    /\ pool.n_workers = 1 /\ pool.state = "shutdown" /\ pc = "idle"
    /\ Cardinality(BatchSet) = 2
    /\ \A u \in BatchSet : units[u].state = "FINISHED" /\ units[u].exc = NoErr
    /\ iter.state = "ended" /\ Len(iter.out) = 2

(***************************************************************************)
(* C37: a chunk gives all its results or a failure, never a part.  When    *)
(* the request for descriptor i of a chunk fails in the transport, the     *)
(* chunk is finished with that failure and an empty result, the tuples of  *)
(* the descriptors before i included; the descriptors after i are not sent *)
(* then nor later; and what the caller gets for the chunk is the failure,  *)
(* no value.  A chunk finished without failure has one tuple for each      *)
(* descriptor.                                                             *)
(***************************************************************************)
C37_AllOrFailure ==
    /\ [](\A u \in UnitIds :
            units[u].state = "FINISHED" =>
                IF units[u].exc = NoErr
                THEN Len(units[u].result) = Len(units[u].arg.xs)
                ELSE /\ units[u].result = <<>>
                     /\ \A o \in 1..Len(iter.out) : iter.out[o].unit # u
                     /\ units[u].exc.kind \in TransportKinds =>
                           \A k \in ConnsOf(u) :
                               /\ Len(conns[k].recv) < Len(units[u].arg.xs)
                               /\ Len(conns[k].sent) <= Len(conns[k].recv) + 1)
    /\ [][\A u \in UnitIds :
             (units[u].state = "FINISHED" /\ units[u].exc # NoErr) =>
                 /\ units'[u].result = <<>>
                 /\ \A k \in ConnsOf(u) : conns'[k].sent = conns[k].sent]_vars

\* the second request of a partition of two failed after the first had been
\* answered; the caller consumed the failure and got no value
C37_Witness ==
    \E u \in BatchSet :
        /\ Len(units[u].arg.xs) = 2
        /\ units[u].state = "FINISHED" /\ units[u].exc.kind = "BadStatusLine"
        /\ units[u].seen /\ iter.out = <<>>
        /\ \E k \in ConnsOf(u) : Len(conns[k].recv) = 1 /\ Len(conns[k].sent) = 2

\* the step is next() raising the failure of the partition at the next
\* position of the sequence
ConsumesFailure ==
    /\ pc = "idle" /\ iter.state = "active" /\ iter.fs # <<>>
    /\ units[Head(iter.fs)].state = "FINISHED"
    /\ units[Head(iter.fs)].exc # NoErr
    /\ ~units[Head(iter.fs)].seen /\ units'[Head(iter.fs)].seen

(***************************************************************************)
(* C38 as stated: when the caller consumes the failure of a partition, the *)
(* sequence goes on with the next position and the later partitions are    *)
(* left as they are, to be executed and consumed.                          *)
(***************************************************************************)
C38_AsStated ==
    [][ConsumesFailure =>
          /\ iter'.state = "active" /\ iter'.fs = Tail(iter.fs)
          /\ \A j \in 2..Len(iter.fs) :
                units'[iter.fs[j]].state = units[iter.fs[j]].state]_vars

(***************************************************************************)
(* C38: when the caller consumes the failure of a partition, the sequence  *)
(* ends.  The later partitions that are still pending are cancelled and    *)
(* never executed; those already handed to the workers are left as they    *)
(* are and run to their end, but the ended sequence yields nothing more,   *)
(* so their results are not obtained from it.                              *)
(***************************************************************************)
C38_FailureEndsSequence ==
    /\ [][/\ ConsumesFailure =>
                /\ iter'.state = "ended" /\ iter'.fs = <<>> /\ iter'.out = iter.out
                /\ \A j \in 2..Len(iter.fs) :
                      LET v == iter.fs[j]
                      IN  IF units[v].state = "PENDING"
                          THEN units'[v] = [units[v] EXCEPT !.state = "CANCELLED"]
                          ELSE units'[v] = units[v]
          /\ iter.state = "ended" => iter' = iter
          /\ \A u \in BatchSet :
                /\ (units[u].state = "RUNNING" /\ units'[u].state # "RUNNING") =>
                      units'[u].state = "FINISHED"
                /\ units[u].state = "CANCELLED" => units'[u] = units[u]]_vars
    /\ [](\A u \in BatchSet :
            units[u].state = "CANCELLED" => (ConnsOf(u) = {} /\ Holders(u) = {}))

\* the first partition failed and its failure was consumed; the second had
\* been handed to the workers, ran to its end, and is not yielded
C38_Witness ==
    /\ iter.state = "ended" /\ iter.out = <<>>
    /\ \E u, v \in BatchSet :
          /\ u < v
          /\ units[u].seen /\ units[u].exc # NoErr
          /\ units[v].state = "FINISHED" /\ units[v].exc = NoErr
          /\ units[v].result # <<>> /\ ~units[v].seen

====
